---- MODULE Spec2Model ----
(***************************************************************************)
(* TEE attestation registry of near-solver: the attestation entity         *)
(* (src/near-solver/src/tee/attestation_data.rs) and the registry that     *)
(* owns the attestations (src/near-solver/src/tee/registry_impl.rs).       *)
(*                                                                         *)
(* Every handler is an operator that maps the current state and the        *)
(* call's inputs to the set of its possible outcomes: the value returned   *)
(* and the registry state it leaves.  An outcome set has more than one     *)
(* element only where the build decides the behaviour (unchecked u64       *)
(* arithmetic: abort with overflow checks, wrap-around without).           *)
(***************************************************************************)
EXTENDS Integers, Sequences, FiniteSets, TLC

(***************************************************************************)
(* Bounds of the model.                                                    *)
(***************************************************************************)
\* the largest value of the model's stand-in for u64 (timestamps, seconds):
\* arithmetic is modulo U64Max + 1
U64Max == 3
\* the block timestamp (seconds) advances up to MaxNow
MaxNow == 1
\* the largest value of the model's stand-in for usize where it is narrower than
\* u64 (32-bit targets): `n as usize` is then n modulo UsizeMax + 1
UsizeMax == 2

U64 == 0..U64Max

(***************************************************************************)
(* Input domains.                                                          *)
(***************************************************************************)
\* the account the registry is constructed with, and another account
AdminAccount == "admin.near"
Accounts == {AdminAccount, "bob.near"}

\* public keys offered to the registry; "" is the empty string
PublicKeys == {"pk1", "pk2"}
KeyInputs == PublicKeys \cup {""}
ReportInputs == {"", "rep1"}
SignatureInputs == {"", "sig1"}

\* enum TeeType: the six named variants and Other(String)
Sgx == [tag |-> "Sgx"]
Sev == [tag |-> "Sev"]
TrustZone == [tag |-> "TrustZone"]
Asylo == [tag |-> "Asylo"]
AzureAttestation == [tag |-> "AzureAttestation"]
AwsNitro == [tag |-> "AwsNitro"]
Other(s) == [tag |-> "Other", name |-> s]

TeeTypeInputs == {Sgx, Sev}

MetaSgx == [sgx_mr_enclave |-> "hex64", sgx_mr_signer |-> "signer",
            sgx_isv_prod_id |-> "1", sgx_isv_svn |-> "1"]
MetaSgxNote == [sgx_mr_enclave |-> "hex64", sgx_mr_signer |-> "signer",
                sgx_isv_prod_id |-> "1", sgx_isv_svn |-> "1", note |-> "n"]
MetaNoSvn == [sgx_mr_enclave |-> "hex64", sgx_mr_signer |-> "signer",
              sgx_isv_prod_id |-> "1"]
\* Option<HashMap>: None is unwrapped to the empty map by new()
EmptyMap == [x \in {} |-> "" ]
MetadataInputs == {MetaSgx, MetaSgxNote, MetaNoSvn, EmptyMap}

(***************************************************************************)
(* State.                                                                  *)
(***************************************************************************)
VARIABLES
    attestations,           \* LookupMap<String, TeeAttestation>
    attestation_keys,       \* UnorderedSet<String>, in iteration order
    attestations_by_owner,  \* LookupMap<AccountId, UnorderedSet<String>>
    admin,                  \* AccountId
    is_paused,              \* bool
    now,                    \* env::block_timestamp() / 1_000_000_000
    registered,             \* history: keys register_attestation returned Ok for
    revoked,                \* history: keys revoke_attestation returned Ok for
    text,                   \* the string handed to TeeType::from_str / left by Display
    parsed,                 \* the Result of TeeType::from_str, or the TeeType to format
    orders                  \* UnorderedMap<String, CrossChainOrder>

vars == <<attestations, attestation_keys, attestations_by_owner, admin,
          is_paused, now, registered, revoked, text, parsed, orders>>

\* what the registry's operations never touch
others == <<text, parsed, orders>>

\* no string is being parsed, and no order is stored
NoParse == [idle |-> TRUE]
NoOrders == <<>>

\* an order that was not constructed
NoOrder == [none |-> TRUE]

\* absent entry of `attestations`
None == [none |-> TRUE]
\* Option<u64> arguments of the list operations
NoneU64 == [some |-> FALSE]
SomeU64(v) == [some |-> TRUE, value |-> v]
unwrap_or(opt, default) == IF opt.some THEN opt.value ELSE default
PageInputs == {NoneU64} \cup {SomeU64(v) : v \in U64}
\* entry of `attestations_by_owner`: absent, or the owner's UnorderedSet
NoSet == [some |-> FALSE]
SomeSet(set) == [some |-> TRUE, set |-> set]

(***************************************************************************)
(* Error taxonomy (tee/errors.rs) and results.                             *)
(***************************************************************************)
Ok == [kind |-> "Ok"]
OkTrue == [kind |-> "Ok", value |-> TRUE]
\* the process aborted (panic): NEAR rolls the call's state changes back
Abort == [kind |-> "Abort"]
Expired(pk, at, cur) ==
    [kind |-> "Expired", public_key |-> pk, expired_at |-> at, current_time |-> cur]
InvalidSignature(pk, d) == [kind |-> "InvalidSignature", public_key |-> pk, details |-> d]
InvalidReport(d) == [kind |-> "InvalidReport", details |-> d]
NotFound(pk) == [kind |-> "NotFound", public_key |-> pk]
Revoked(pk, at) == [kind |-> "Revoked", public_key |-> pk, at |-> at]
Unauthorized(c, r) == [kind |-> "Unauthorized", caller |-> c, required |-> r]
Paused == [kind |-> "Paused"]
NotPaused == [kind |-> "NotPaused"]
AlreadyExists(pk) == [kind |-> "AlreadyExists", public_key |-> pk]
MissingMetadata(f, t) == [kind |-> "MissingMetadata", field |-> f, tee_type |-> t]
InvalidMetadata(f, v, e) ==
    [kind |-> "InvalidMetadata", field |-> f, value |-> v, expected |-> e]
NotActive(pk) == [kind |-> "NotActive", public_key |-> pk]
InvalidExpiration(e, c) ==
    [kind |-> "InvalidExpiration", expires_at |-> e, current_time |-> c]
Internal(msg) == [kind |-> "Internal", message |-> msg]

(***************************************************************************)
(* TeeType (tee/types.rs).                                                 *)
(***************************************************************************)
as_str(t) ==
    CASE t.tag = "Sgx" -> "sgx"
      [] t.tag = "Sev" -> "sev"
      [] t.tag = "TrustZone" -> "trustzone"
      [] t.tag = "Asylo" -> "asylo"
      [] t.tag = "AzureAttestation" -> "azure_attestation"
      [] t.tag = "AwsNitro" -> "aws_nitro"
      [] t.tag = "Other" -> t.name

\* impl Display for TeeType
to_string(t) == IF t.tag = "Other" THEN "other:" \o t.name ELSE as_str(t)

\* the ASCII letters; the strings offered hold no other cased character
LowerLetters == "abcdefghijklmnopqrstuvwxyz"
UpperLetters == "ABCDEFGHIJKLMNOPQRSTUVWXYZ"

\* the i-th character of a string, as a string
char_at(s, i) == SubSeq(s, i, i)

\* char::to_lowercase / char::to_uppercase
lower_char(c) ==
    IF \E i \in 1..Len(UpperLetters) : char_at(UpperLetters, i) = c
    THEN char_at(LowerLetters, CHOOSE i \in 1..Len(UpperLetters) : char_at(UpperLetters, i) = c)
    ELSE c
upper_char(c) ==
    IF \E i \in 1..Len(LowerLetters) : char_at(LowerLetters, i) = c
    THEN char_at(UpperLetters, CHOOSE i \in 1..Len(LowerLetters) : char_at(LowerLetters, i) = c)
    ELSE c

\* str::to_lowercase
RECURSIVE to_lowercase(_)
to_lowercase(s) ==
    IF s = "" THEN "" ELSE lower_char(char_at(s, 1)) \o to_lowercase(SubSeq(s, 2, Len(s)))

\* str::starts_with
starts_with(s, prefix) == Len(s) >= Len(prefix) /\ SubSeq(s, 1, Len(prefix)) = prefix

\* Result<TeeType, String>
OkType(t) == [ok |-> TRUE, value |-> t]
ErrString(msg) == [ok |-> FALSE, err |-> msg]

\* mutant: the names are matched on the string as given
from_str_case_sensitive(s) ==
    CASE s = "sgx" -> OkType(Sgx)
      [] s = "sev" -> OkType(Sev)
      [] s \in {"trustzone", "trust_zone"} -> OkType(TrustZone)
      [] s = "asylo" -> OkType(Asylo)
      [] s \in {"azure_attestation", "azure"} -> OkType(AzureAttestation)
      [] s \in {"aws_nitro", "nitro"} -> OkType(AwsNitro)
      [] OTHER ->
            IF starts_with(s, "other:")
            THEN OkType(Other(SubSeq(s, 7, Len(s))))
            ELSE ErrString("Invalid TEE type: " \o s)

\* mutant: the suffix of "other:" is taken from the lower-cased string
from_str_lowered_suffix(s) ==
    LET lowered == to_lowercase(s)
    IN  CASE lowered = "sgx" -> OkType(Sgx)
          [] lowered = "sev" -> OkType(Sev)
          [] lowered \in {"trustzone", "trust_zone"} -> OkType(TrustZone)
          [] lowered = "asylo" -> OkType(Asylo)
          [] lowered \in {"azure_attestation", "azure"} -> OkType(AzureAttestation)
          [] lowered \in {"aws_nitro", "nitro"} -> OkType(AwsNitro)
          [] OTHER ->
                IF starts_with(s, "other:")
                THEN OkType(Other(SubSeq(lowered, 7, Len(lowered))))
                ELSE ErrString("Invalid TEE type: " \o s)

\* impl FromStr for TeeType: the match is on the lower-cased string, the guard
\* of the "other:" arm and the suffix it keeps are on the string as given
from_str(s) ==
    LET lowered == to_lowercase(s)
    IN  CASE lowered = "sgx" -> OkType(Sgx)
          [] lowered = "sev" -> OkType(Sev)
          [] lowered \in {"trustzone", "trust_zone"} -> OkType(TrustZone)
          [] lowered = "asylo" -> OkType(Asylo)
          [] lowered \in {"azure_attestation", "azure"} -> OkType(AzureAttestation)
          [] lowered \in {"aws_nitro", "nitro"} -> OkType(AwsNitro)
          [] OTHER ->
                IF starts_with(s, "other:")
                THEN OkType(Other(SubSeq(s, 7, Len(s))))
                ELSE ErrString("Invalid TEE type: " \o s)

(***************************************************************************)
(* u64 addition as `a + b` and `a += b` compile: the possible results.  On  *)
(* overflow the build decides: a panic under overflow checks, the sum      *)
(* modulo 2^w without them.                                                *)
(***************************************************************************)
u64_add(a, b) ==
    IF a + b <= U64Max THEN {[abort |-> FALSE, value |-> a + b]}
    ELSE {[abort |-> TRUE, value |-> 0],
          [abort |-> FALSE, value |-> (a + b) % (U64Max + 1)]}

(***************************************************************************)
(* Signature verification (tee/signature_verification_wasm.rs).            *)
(* Strings and byte strings are tokens; what base64, SHA-256, the key and  *)
(* signature parsers and the verifiers of the crypto crates make of each   *)
(* token is tabulated here.                                                *)
(***************************************************************************)
\* general_purpose::STANDARD.decode: the decoded bytes, or "err"
base64_decode(s) ==
    CASE s = "pk1" -> "point1"
      [] s = "pk2" -> "point2"
      [] s = "pk_off" -> "offcurve"
      [] s = "rep1" -> "report1"
      [] s = "sig1" -> "sig_sk1_hh_report1"
      [] s = "sig1_plain" -> "sig_sk1_h_report1"
      [] s = "sig1_flip" -> "sig_flipped"
      [] s = "sig1_flip_range" -> "sig_out_of_range"
      [] s = "edpk1" -> "ed_point1"
      [] s = "edsig1" -> "edsig_sk1_report1"
      [] s = "b64" -> "bytes"
      [] OTHER -> "err"

\* the strings that are not valid base64: base64_decode fails on them
NotBase64 == {"!pk", "!rep", "!sig", "sig1_flip_b64"}

\* Sha256::new().update(bytes).finalize()
sha256(bytes) ==
    CASE bytes = "report1" -> "h_report1"
      [] bytes = "h_report1" -> "hh_report1"
      [] OTHER -> "h_other"

\* P256EncodedPoint::from_bytes: the bytes are a SEC1 encoding
p256_encoded_point(bytes) == bytes \in {"point1", "point2", "offcurve"}
\* P256VerifyingKey::from_encoded_point: the point is on the curve
p256_key(bytes) == bytes \in {"point1", "point2"}
\* P256Signature::try_from: 64 bytes r || s, both scalars in range
p256_signature(bytes) ==
    bytes \in {"sig_sk1_hh_report1", "sig_sk1_h_report1", "sig_flipped"}
\* Verifier::verify(msg, signature) of a P-256 verifying key: ECDSA over the
\* SHA-256 digest of msg
p256_verify(key_bytes, msg, sig_bytes) ==
    /\ key_bytes = "point1"
    /\ \/ sha256(msg) = "hh_report1" /\ sig_bytes = "sig_sk1_hh_report1"
       \/ sha256(msg) = "h_report1" /\ sig_bytes = "sig_sk1_h_report1"

\* Vec<u8>::len of a decoded token
bytes_len(bytes) ==
    CASE bytes = "ed_point1" -> 32
      [] bytes \in {"edsig_sk1_report1", "sig_sk1_hh_report1", "sig_sk1_h_report1",
                    "sig_flipped", "sig_out_of_range"} -> 64
      [] bytes \in {"point1", "point2", "offcurve"} -> 65
      [] OTHER -> 5
\* Ed25519VerifyingKey::from_slice and Ed25519Signature::from_slice
ed25519_key(bytes) == bytes = "ed_point1"
ed25519_signature(bytes) == bytes = "edsig_sk1_report1"
\* PublicKey::verify(message, signature) of ed25519_compact
ed25519_verify(key_bytes, msg, sig_bytes) ==
    key_bytes = "ed_point1" /\ msg = "report1" /\ sig_bytes = "edsig_sk1_report1"

\* the first field of `fields` (a sequence) that `metadata` lacks, or 0
first_missing(fields, metadata) ==
    IF \A i \in 1..Len(fields) : fields[i] \in DOMAIN metadata THEN 0
    ELSE CHOOSE i \in 1..Len(fields) :
            /\ fields[i] \notin DOMAIN metadata
            /\ \A j \in 1..(i - 1) : fields[j] \in DOMAIN metadata

SgxRequired == <<"sgx_mr_enclave", "sgx_mr_signer", "sgx_isv_prod_id", "sgx_isv_svn">>
SevRequired == <<"sev_policy", "sev_family_id", "sev_image_id">>
TrustZoneRequired == <<"tz_secure_version", "tz_non_secure_version">>
AsyloRequired == <<"asylo_enclave_hash", "asylo_enclave_version">>
AzureRequired == <<"azure_tenant_id", "azure_client_id">>
AwsNitroRequired == <<"nitro_pcr0", "nitro_pcr1", "nitro_pcr2">>

\* mutant: the signature is parsed but never verified against the report
ecdsa_p256_verify_unchecked(public_key, report, signature, pk_details, sig_details) ==
    LET pkb == base64_decode(public_key)
        rb == base64_decode(report)
        sb == base64_decode(signature)
    IN  IF pkb = "err" THEN InvalidSignature(public_key, pk_details)
        ELSE IF rb = "err" THEN InvalidReport("Invalid base64 encoding in report")
        ELSE IF sb = "err" THEN InvalidSignature(public_key, sig_details)
        ELSE IF ~p256_encoded_point(pkb)
             THEN InvalidSignature(public_key, "Invalid P-256 public key encoding")
        ELSE IF ~p256_key(pkb)
             THEN InvalidSignature(public_key, "Invalid P-256 public key point")
        ELSE IF ~p256_signature(sb)
             THEN InvalidSignature(public_key, "Invalid ECDSA P-256 signature format")
        ELSE Ok

\* the decode / hash / parse / verify tail shared by the ECDSA P-256 verifiers;
\* the details of the two base64 errors differ between them
ecdsa_p256_verify(public_key, report, signature, pk_details, sig_details) ==
    LET pkb == base64_decode(public_key)
        rb == base64_decode(report)
        sb == base64_decode(signature)
        report_hash == sha256(rb)
    IN  IF pkb = "err" THEN InvalidSignature(public_key, pk_details)
        ELSE IF rb = "err" THEN InvalidReport("Invalid base64 encoding in report")
        ELSE IF sb = "err" THEN InvalidSignature(public_key, sig_details)
        ELSE IF ~p256_encoded_point(pkb)
             THEN InvalidSignature(public_key, "Invalid P-256 public key encoding")
        ELSE IF ~p256_key(pkb)
             THEN InvalidSignature(public_key, "Invalid P-256 public key point")
        ELSE IF ~p256_signature(sb)
             THEN InvalidSignature(public_key, "Invalid ECDSA P-256 signature format")
        ELSE IF ~p256_verify(pkb, report_hash, sb)
             THEN InvalidSignature(public_key, "ECDSA P-256 signature verification failed")
        ELSE Ok

\* the 64-character hex token; every other metadata value is shorter
str_len(v) == IF v = "hex64" THEN 64 ELSE Len(v)

verify_sgx_signature(public_key, report, signature, metadata) ==
    IF public_key = "" THEN InvalidSignature(public_key, "Public key cannot be empty")
    ELSE IF signature = "" THEN InvalidSignature(public_key, "Signature cannot be empty")
    ELSE IF first_missing(SgxRequired, metadata) # 0
         THEN MissingMetadata(SgxRequired[first_missing(SgxRequired, metadata)], "SGX")
    ELSE IF str_len(metadata["sgx_mr_enclave"]) # 64
         THEN InvalidMetadata("sgx_mr_enclave", metadata["sgx_mr_enclave"],
                              "64-character hex string")
    ELSE ecdsa_p256_verify(public_key, report, signature,
                           "Invalid base64 encoding in public key",
                           "Invalid base64 encoding in signature")

\* mutant: the inputs are decoded before the metadata is looked at
verify_p256_decode_first(public_key, report, signature, metadata, required, name) ==
    IF public_key = "" \/ signature = ""
    THEN InvalidSignature(public_key, "Public key and signature cannot be empty")
    ELSE IF base64_decode(public_key) = "err"
         THEN InvalidSignature(public_key, "Invalid base64 public key")
    ELSE IF base64_decode(report) = "err"
         THEN InvalidReport("Invalid base64 encoding in report")
    ELSE IF base64_decode(signature) = "err"
         THEN InvalidSignature(public_key, "Invalid base64 signature")
    ELSE IF first_missing(required, metadata) # 0
         THEN MissingMetadata(required[first_missing(required, metadata)], name)
    ELSE ecdsa_p256_verify(public_key, report, signature,
                           "Invalid base64 public key", "Invalid base64 signature")

\* the shape shared by the SEV, TrustZone, Azure and AWS Nitro verifiers
verify_p256_with_fields(public_key, report, signature, metadata, required, name) ==
    IF public_key = "" \/ signature = ""
    THEN InvalidSignature(public_key, "Public key and signature cannot be empty")
    ELSE IF first_missing(required, metadata) # 0
         THEN MissingMetadata(required[first_missing(required, metadata)], name)
    ELSE ecdsa_p256_verify(public_key, report, signature,
                           "Invalid base64 public key", "Invalid base64 signature")

verify_sev_signature(public_key, report, signature, metadata) ==
    verify_p256_with_fields(public_key, report, signature, metadata, SevRequired, "SEV")

verify_trustzone_signature(public_key, report, signature, metadata) ==
    verify_p256_with_fields(public_key, report, signature, metadata,
                            TrustZoneRequired, "TrustZone")

verify_asylo_signature(public_key, report, signature, metadata) ==
    LET pkb == base64_decode(public_key)
        rb == base64_decode(report)
        sb == base64_decode(signature)
    IN  IF public_key = "" \/ signature = ""
        THEN InvalidSignature(public_key, "Public key and signature cannot be empty")
        ELSE IF first_missing(AsyloRequired, metadata) # 0
             THEN MissingMetadata(AsyloRequired[first_missing(AsyloRequired, metadata)],
                                  "Asylo")
        ELSE IF pkb = "err" THEN InvalidSignature(public_key, "Invalid base64 public key")
        ELSE IF rb = "err" THEN InvalidReport("Invalid base64 encoding in report")
        ELSE IF sb = "err" THEN InvalidSignature(public_key, "Invalid base64 signature")
        ELSE IF bytes_len(pkb) # 32
             THEN InvalidSignature(public_key, "Ed25519 public key must be 32 bytes")
        ELSE IF ~ed25519_key(pkb)
             THEN InvalidSignature(public_key, "Invalid Ed25519 public key")
        ELSE IF bytes_len(sb) # 64
             THEN InvalidSignature(public_key, "Ed25519 signature must be 64 bytes")
        ELSE IF ~ed25519_signature(sb)
             THEN InvalidSignature(public_key, "Invalid Ed25519 signature format")
        ELSE IF ~ed25519_verify(pkb, rb, sb)
             THEN InvalidSignature(public_key, "Ed25519 signature verification failed")
        ELSE Ok

verify_azure_signature(public_key, report, signature, metadata) ==
    verify_p256_with_fields(public_key, report, signature, metadata, AzureRequired, "Azure")

verify_aws_nitro_signature(public_key, report, signature, metadata) ==
    verify_p256_with_fields(public_key, report, signature, metadata,
                            AwsNitroRequired, "AWS Nitro")

\* the algorithms verify_generic_signature lets through
GenericAlgorithms == {"ECDSA-P256", "ECDSA-P384", "RSA-PSS", "Ed25519"}

\* verify_generic_signature: the report is not looked at
verify_generic_signature(public_key, report, signature, metadata) ==
    IF public_key = "" \/ signature = ""
    THEN InvalidSignature(public_key, "Public key and signature cannot be empty")
    ELSE IF "signature_algorithm" \in DOMAIN metadata
         THEN IF metadata["signature_algorithm"] \in GenericAlgorithms THEN Ok
              ELSE InvalidMetadata("signature_algorithm", metadata["signature_algorithm"],
                                   "ECDSA-P256, ECDSA-P384, RSA-PSS, or Ed25519")
    ELSE InvalidMetadata("signature_algorithm", "not specified",
                         "Must specify signature_algorithm for custom TEE types")

\* the dispatcher
verify_tee_signature(tee_type, public_key, report, signature, metadata) ==
    CASE tee_type = Sgx -> verify_sgx_signature(public_key, report, signature, metadata)
      [] tee_type = Sev -> verify_sev_signature(public_key, report, signature, metadata)
      [] tee_type = TrustZone ->
            verify_trustzone_signature(public_key, report, signature, metadata)
      [] tee_type = Asylo -> verify_asylo_signature(public_key, report, signature, metadata)
      [] tee_type = AzureAttestation ->
            verify_azure_signature(public_key, report, signature, metadata)
      [] tee_type = AwsNitro ->
            verify_aws_nitro_signature(public_key, report, signature, metadata)
      [] tee_type.tag = "Other" ->
            verify_generic_signature(public_key, report, signature, metadata)

(***************************************************************************)
(* The attestation entity (tee/attestation_data.rs).  An entity operation  *)
(* yields [ret, att]: the value returned and the entity as it leaves it;   *)
(* new and extend_expiration, which add u64 values, yield the set of them. *)
(***************************************************************************)
\* TeeAttestation::validate_tee_metadata
validate_tee_metadata(tee_type, metadata) ==
    CASE tee_type = Sgx ->
            IF first_missing(SgxRequired, metadata) # 0
            THEN MissingMetadata(SgxRequired[first_missing(SgxRequired, metadata)],
                                 to_string(tee_type))
            ELSE Ok
      [] tee_type = Sev ->
            IF "sev_policy" \notin DOMAIN metadata
            THEN MissingMetadata("sev_policy", to_string(tee_type))
            ELSE Ok
      [] tee_type = TrustZone ->
            IF "trustzone_version" \notin DOMAIN metadata
            THEN MissingMetadata("trustzone_version", to_string(tee_type))
            ELSE Ok
      [] OTHER -> Ok

\* mutant: a zero ttl is accepted
new_accepting_zero_ttl(tee_type, public_key, report, signature, signer_id, expires_in_seconds, metadata) ==
    {IF expires_at.abort THEN [ret |-> Abort, att |-> None]
     ELSE IF public_key = ""
          THEN [ret |-> InvalidReport("Public key cannot be empty"), att |-> None]
     ELSE IF report = ""
          THEN [ret |-> InvalidReport("Report cannot be empty"), att |-> None]
     ELSE IF signature = ""
          THEN [ret |-> InvalidSignature(public_key, "Signature cannot be empty"),
                att |-> None]
     ELSE IF validate_tee_metadata(tee_type, metadata) # Ok
          THEN [ret |-> validate_tee_metadata(tee_type, metadata), att |-> None]
     ELSE [ret |-> Ok,
           att |-> [tee_type |-> tee_type, public_key |-> public_key, report |-> report,
                    signature |-> signature, issued_at |-> now,
                    expires_at |-> expires_at.value, signer_id |-> signer_id,
                    version |-> "1.0.0", metadata |-> metadata, updated_at |-> now,
                    is_active |-> TRUE]]
     : expires_at \in u64_add(now, expires_in_seconds)}

\* TeeAttestation::new: `current_timestamp + expires_in_seconds` is computed
\* before any input is looked at
new(tee_type, public_key, report, signature, signer_id, expires_in_seconds, metadata) ==
    LET current_timestamp == now
    IN  {IF expires_at.abort THEN [ret |-> Abort, att |-> None]
         ELSE IF public_key = ""
              THEN [ret |-> InvalidReport("Public key cannot be empty"), att |-> None]
         ELSE IF report = ""
              THEN [ret |-> InvalidReport("Report cannot be empty"), att |-> None]
         ELSE IF signature = ""
              THEN [ret |-> InvalidSignature(public_key, "Signature cannot be empty"),
                    att |-> None]
         ELSE IF expires_in_seconds = 0
              THEN [ret |-> InvalidExpiration(expires_at.value, current_timestamp),
                    att |-> None]
         ELSE IF validate_tee_metadata(tee_type, metadata) # Ok
              THEN [ret |-> validate_tee_metadata(tee_type, metadata), att |-> None]
         ELSE [ret |-> Ok,
               att |-> [tee_type |-> tee_type,
                        public_key |-> public_key,
                        report |-> report,
                        signature |-> signature,
                        issued_at |-> current_timestamp,
                        expires_at |-> expires_at.value,
                        signer_id |-> signer_id,
                        version |-> "1.0.0",
                        metadata |-> metadata,
                        updated_at |-> current_timestamp,
                        is_active |-> TRUE]]
         : expires_at \in u64_add(current_timestamp, expires_in_seconds)}

\* TeeAttestation::verify_signature
verify_signature(self) ==
    verify_tee_signature(self.tee_type, self.public_key, self.report, self.signature,
                         self.metadata)

\* mutant: the signature verifier is never consulted
validate_skipping_signature(self, current_timestamp, verify) ==
    IF ~self.is_active THEN NotActive(self.public_key)
    ELSE IF current_timestamp > self.expires_at
         THEN Expired(self.public_key, self.expires_at, current_timestamp)
    ELSE Ok

\* mutant: expiry is looked at before revocation
validate_expiry_first(self, current_timestamp, verify) ==
    IF current_timestamp > self.expires_at
    THEN Expired(self.public_key, self.expires_at, current_timestamp)
    ELSE IF ~self.is_active THEN NotActive(self.public_key)
    ELSE IF verify /\ verify_signature(self) # Ok THEN verify_signature(self)
    ELSE Ok

\* mutant: a revoked attestation is validated like an active one
validate_ignoring_active(self, current_timestamp, verify) ==
    IF current_timestamp > self.expires_at
    THEN Expired(self.public_key, self.expires_at, current_timestamp)
    ELSE IF verify /\ verify_signature(self) # Ok THEN verify_signature(self)
    ELSE Ok

\* TeeAttestation::validate
validate(self, current_timestamp, verify) ==
    IF ~self.is_active THEN NotActive(self.public_key)
    ELSE IF current_timestamp > self.expires_at
         THEN Expired(self.public_key, self.expires_at, current_timestamp)
    ELSE IF verify /\ verify_signature(self) # Ok THEN verify_signature(self)
    ELSE Ok

\* mutant: the attestation is no longer valid at expires_at itself
is_valid_strict(self, current_timestamp) ==
    self.is_active /\ current_timestamp < self.expires_at

\* TeeAttestation::is_valid
is_valid(self, current_timestamp) ==
    self.is_active /\ current_timestamp <= self.expires_at

\* mutant: the new expiration is counted from the current time
extend_expiration_from_now(self, additional_seconds) ==
    IF ~self.is_active THEN {[ret |-> NotActive(self.public_key), att |-> self]}
    ELSE {[ret |-> Ok,
           att |-> [self EXCEPT !.expires_at = (now + additional_seconds) % (U64Max + 1),
                                !.updated_at = now]]}

\* TeeAttestation::extend_expiration: `self.expires_at += additional_seconds`
extend_expiration(self, additional_seconds) ==
    LET current_timestamp == now
    IN  IF ~self.is_active THEN {[ret |-> NotActive(self.public_key), att |-> self]}
        ELSE {IF sum.abort THEN [ret |-> Abort, att |-> self]
              ELSE [ret |-> Ok,
                    att |-> [self EXCEPT !.expires_at = sum.value,
                                         !.updated_at = current_timestamp]]
              : sum \in u64_add(self.expires_at, additional_seconds)}

\* mutant: revoke flips is_active
revoke_toggling(self) ==
    [ret |-> Ok, att |-> [self EXCEPT !.is_active = ~self.is_active, !.updated_at = now]]

\* mutant: revoking a revoked attestation is accepted
revoke_idempotent(self) ==
    [ret |-> Ok, att |-> [self EXCEPT !.is_active = FALSE, !.updated_at = now]]

\* TeeAttestation::revoke
revoke(self) ==
    IF ~self.is_active
    THEN [ret |-> Revoked(self.public_key, self.updated_at), att |-> self]
    ELSE [ret |-> Ok, att |-> [self EXCEPT !.is_active = FALSE, !.updated_at = now]]

\* mutant: a metadata update also restarts the attestation's issue time
update_metadata_reissuing(self, new_metadata) ==
    IF ~self.is_active THEN [ret |-> NotActive(self.public_key), att |-> self]
    ELSE IF validate_tee_metadata(self.tee_type, new_metadata) # Ok
         THEN [ret |-> validate_tee_metadata(self.tee_type, new_metadata), att |-> self]
    ELSE [ret |-> Ok,
          att |-> [self EXCEPT !.metadata = new_metadata, !.updated_at = now,
                               !.issued_at = now + 1]]

\* TeeAttestation::update_metadata
update_metadata(self, new_metadata) ==
    IF ~self.is_active THEN [ret |-> NotActive(self.public_key), att |-> self]
    ELSE IF validate_tee_metadata(self.tee_type, new_metadata) # Ok
         THEN [ret |-> validate_tee_metadata(self.tee_type, new_metadata), att |-> self]
    ELSE [ret |-> Ok,
          att |-> [self EXCEPT !.metadata = new_metadata, !.updated_at = now]]

(***************************************************************************)
(* The registry (tee/registry_impl.rs).  A registry operation yields       *)
(* the set of its possible outcomes [ret, attestations, attestation_keys,  *)
(* attestations_by_owner, is_paused]: the result and the registry fields   *)
(* as the call leaves them.                                                *)
(***************************************************************************)
\* a call that returns `ret` and writes nothing
unchanged(ret) ==
    [ret |-> ret,
     attestations |-> attestations,
     attestation_keys |-> attestation_keys,
     attestations_by_owner |-> attestations_by_owner,
     is_paused |-> is_paused]

\* mutant: the element is not stored
set_insert_dropped(set, e) == set

\* UnorderedSet::insert: a new element goes to the end of the iteration order
set_insert(set, e) ==
    IF \E i \in 1..Len(set) : set[i] = e THEN set ELSE Append(set, e)

\* mutant: a key whose attestation was revoked counts as free again
contains_key_unless_revoked(public_key) ==
    attestations[public_key] # None /\ attestations[public_key].is_active

\* LookupMap::contains_key on `attestations`
contains_key(public_key) == attestations[public_key] # None

\* mutant: the pause gate lets every call through
ensure_not_paused_never == Ok

\* TeeAttestationRegistry::ensure_not_paused
ensure_not_paused == IF is_paused THEN Paused ELSE Ok

\* mutant: the admin gate lets every caller through
ensure_caller_is_admin_anyone(signer) == Ok

\* TeeAttestationRegistry::ensure_caller_is_admin
ensure_caller_is_admin(signer) ==
    IF signer # admin THEN Unauthorized(signer, "admin") ELSE Ok

\* TeeAttestationRegistry::register_attestation
register_attestation(signer, public_key, tee_type, report, signature, expires_in_seconds, metadata) ==
    LET owner_attestations ==
            IF attestations_by_owner[signer] = NoSet THEN <<>>
            ELSE attestations_by_owner[signer].set
    IN  IF ensure_not_paused # Ok THEN {unchanged(ensure_not_paused)}
        ELSE IF ensure_caller_is_admin(signer) # Ok
             THEN {unchanged(ensure_caller_is_admin(signer))}
        ELSE IF contains_key(public_key) THEN {unchanged(AlreadyExists(public_key))}
        ELSE {IF created.ret # Ok THEN unchanged(created.ret)
              ELSE [ret |-> Ok,
                    attestations |-> [attestations EXCEPT ![public_key] = created.att],
                    attestation_keys |-> set_insert(attestation_keys, public_key),
                    attestations_by_owner |->
                        [attestations_by_owner EXCEPT
                            ![signer] = SomeSet(set_insert(owner_attestations,
                                                           public_key))],
                    is_paused |-> is_paused]
              : created \in new(tee_type, public_key, report, signature, signer,
                                expires_in_seconds, metadata)}

\* mutant: an entity error is reported as a generic internal error
write_back_internal(public_key, done) ==
    IF done.ret # Ok THEN unchanged(Internal("attestation operation failed"))
    ELSE [unchanged(Ok) EXCEPT
             !.attestations = [attestations EXCEPT ![public_key] = done.att]]

\* the tail of revoke / extend / update_metadata: the entity method's result is
\* returned, and on success the mutated entity is written back under its key
write_back(public_key, done) ==
    IF done.ret # Ok THEN unchanged(done.ret)
    ELSE [unchanged(Ok) EXCEPT
             !.attestations = [attestations EXCEPT ![public_key] = done.att]]

\* mutant: revoke deletes the entry and its key instead of marking it inactive
revoke_attestation_removing(signer, public_key) ==
    IF ensure_not_paused # Ok THEN {unchanged(ensure_not_paused)}
    ELSE IF ensure_caller_is_admin(signer) # Ok
         THEN {unchanged(ensure_caller_is_admin(signer))}
    ELSE IF attestations[public_key] = None THEN {unchanged(NotFound(public_key))}
    ELSE {[unchanged(Ok) EXCEPT
              !.attestations = [attestations EXCEPT ![public_key] = None],
              !.attestation_keys = SelectSeq(attestation_keys,
                                             LAMBDA k : k # public_key)]}

\* mutant: revoking a key the registry does not hold is accepted
revoke_attestation_absent_ok(signer, public_key) ==
    IF ensure_not_paused # Ok THEN {unchanged(ensure_not_paused)}
    ELSE IF ensure_caller_is_admin(signer) # Ok
         THEN {unchanged(ensure_caller_is_admin(signer))}
    ELSE IF attestations[public_key] = None THEN {unchanged(Ok)}
    ELSE {write_back(public_key, revoke(attestations[public_key]))}

\* TeeAttestationRegistry::revoke_attestation
revoke_attestation(signer, public_key) ==
    IF ensure_not_paused # Ok THEN {unchanged(ensure_not_paused)}
    ELSE IF ensure_caller_is_admin(signer) # Ok
         THEN {unchanged(ensure_caller_is_admin(signer))}
    ELSE IF attestations[public_key] = None THEN {unchanged(NotFound(public_key))}
    ELSE {write_back(public_key, revoke(attestations[public_key]))}

\* TeeAttestationRegistry::extend_attestation
extend_attestation(signer, public_key, additional_seconds) ==
    IF ensure_not_paused # Ok THEN {unchanged(ensure_not_paused)}
    ELSE IF ensure_caller_is_admin(signer) # Ok
         THEN {unchanged(ensure_caller_is_admin(signer))}
    ELSE IF attestations[public_key] = None THEN {unchanged(NotFound(public_key))}
    ELSE {write_back(public_key, done) :
            done \in extend_expiration(attestations[public_key], additional_seconds)}

\* TeeAttestationRegistry::update_attestation_metadata
update_attestation_metadata(signer, public_key, new_metadata) ==
    IF ensure_not_paused # Ok THEN {unchanged(ensure_not_paused)}
    ELSE IF ensure_caller_is_admin(signer) # Ok
         THEN {unchanged(ensure_caller_is_admin(signer))}
    ELSE IF attestations[public_key] = None THEN {unchanged(NotFound(public_key))}
    ELSE {write_back(public_key,
                     update_metadata(attestations[public_key], new_metadata))}

\* mutant: the redundant transition is looked at before the caller
pause_state_first(signer) ==
    IF is_paused THEN {unchanged(Paused)}
    ELSE IF ensure_caller_is_admin(signer) # Ok
         THEN {unchanged(ensure_caller_is_admin(signer))}
    ELSE {[unchanged(Ok) EXCEPT !.is_paused = TRUE]}

\* mutant: pausing a paused registry is accepted
pause_idempotent(signer) ==
    IF ensure_caller_is_admin(signer) # Ok
    THEN {unchanged(ensure_caller_is_admin(signer))}
    ELSE {[unchanged(Ok) EXCEPT !.is_paused = TRUE]}

\* TeeAttestationRegistry::pause
pause(signer) ==
    IF ensure_caller_is_admin(signer) # Ok
    THEN {unchanged(ensure_caller_is_admin(signer))}
    ELSE IF is_paused THEN {unchanged(Paused)}
    ELSE {[unchanged(Ok) EXCEPT !.is_paused = TRUE]}

\* TeeAttestationRegistry::unpause
unpause(signer) ==
    IF ensure_caller_is_admin(signer) # Ok
    THEN {unchanged(ensure_caller_is_admin(signer))}
    ELSE IF ~is_paused THEN {unchanged(NotPaused)}
    ELSE {[unchanged(Ok) EXCEPT !.is_paused = FALSE]}

\* TeeAttestationRegistry::get_attestation
get_attestation(public_key) == attestations[public_key]

\* the default page length and the cap on it
DefaultLimit == 50
LimitCap == 100

Min(a, b) == IF a <= b THEN a ELSE b

\* `n as usize` for a u64 n: the value itself where usize is 64 bits wide, the
\* value modulo 2^32 where it is 32 bits wide (the wasm32 target of a contract)
as_usize(n) == {n, n % (UsizeMax + 1)}

\* iter().skip(from).take(limit) over a set in iteration order
skip_take(set, from, limit) == SubSeq(set, from + 1, Min(from + limit, Len(set)))

\* TeeAttestationRegistry::get_attestation_keys: the possible results; the limit
\* is at most LimitCap and fits usize on every target
get_attestation_keys(from_index, limit) ==
    {skip_take(attestation_keys, from, Min(unwrap_or(limit, DefaultLimit), LimitCap)) :
        from \in as_usize(unwrap_or(from_index, 0))}

\* TeeAttestationRegistry::get_attestations_by_owner: the possible results
get_attestations_by_owner(owner_id, from_index, limit) ==
    IF attestations_by_owner[owner_id] = NoSet THEN {<<>>}
    ELSE {SelectSeq([i \in DOMAIN page |-> attestations[page[i]]],
                    LAMBDA a : a # None) :
            page \in {skip_take(attestations_by_owner[owner_id].set, from,
                                Min(unwrap_or(limit, DefaultLimit), LimitCap)) :
                        from \in as_usize(unwrap_or(from_index, 0))}}

\* mutant: verifying an expired attestation deactivates it
verify_attestation_expiring(public_key, verify) ==
    IF attestations[public_key] = None THEN {unchanged(NotFound(public_key))}
    ELSE IF validate(attestations[public_key], now, verify) # Ok
         THEN {[unchanged(validate(attestations[public_key], now, verify)) EXCEPT
                   !.attestations[public_key].is_active = FALSE]}
    ELSE {unchanged(OkTrue)}

\* mutant: an attestation that fails validation is reported as Ok(false)
verify_attestation_false(public_key, verify) ==
    IF attestations[public_key] = None THEN {unchanged(NotFound(public_key))}
    ELSE IF validate(attestations[public_key], now, verify) # Ok
         THEN {unchanged([kind |-> "Ok", value |-> FALSE])}
    ELSE {unchanged(OkTrue)}

\* TeeAttestationRegistry::verify_attestation: its only success is Ok(true)
verify_attestation(public_key, verify) ==
    IF attestations[public_key] = None THEN {unchanged(NotFound(public_key))}
    ELSE IF validate(attestations[public_key], now, verify) # Ok
         THEN {unchanged(validate(attestations[public_key], now, verify))}
    ELSE {unchanged(OkTrue)}

(***************************************************************************)
(* The state machine: one action per registry operation, each applying     *)
(* the whole handler to inputs drawn from the input domains.               *)
(***************************************************************************)
Init ==
    /\ attestations = [k \in KeyInputs |-> None]
    /\ attestation_keys = <<>>
    /\ attestations_by_owner = [a \in Accounts |-> NoSet]
    /\ admin = AdminAccount
    /\ is_paused = FALSE
    /\ now = 0
    /\ registered = {}
    /\ revoked = {}
    /\ text = ""
    /\ parsed = NoParse
    /\ orders = NoOrders

\* the registry fields become what the call left; nothing else moves
Apply(out) ==
    /\ attestations' = out.attestations
    /\ attestation_keys' = out.attestation_keys
    /\ attestations_by_owner' = out.attestations_by_owner
    /\ is_paused' = out.is_paused
    /\ UNCHANGED <<admin, now, others>>

\* the registrations offered: every combination that new() accepts, and every
\* combination with exactly one input that new() rejects
RegisterInputs ==
    {r \in [public_key : KeyInputs, tee_type : TeeTypeInputs, report : ReportInputs,
            signature : SignatureInputs, metadata : MetadataInputs] :
        Cardinality({f \in {"public_key", "report", "signature"} : r[f] = ""})
          + (IF validate_tee_metadata(r.tee_type, r.metadata) = Ok THEN 0 ELSE 1) <= 1}

Register ==
    \E signer \in Accounts, r \in RegisterInputs, expires_in_seconds \in U64 :
        \E out \in register_attestation(signer, r.public_key, r.tee_type, r.report,
                                        r.signature, expires_in_seconds, r.metadata) :
            /\ Apply(out)
            /\ registered' = IF out.ret = Ok THEN registered \cup {r.public_key}
                             ELSE registered
            /\ UNCHANGED revoked

Revoke ==
    \E signer \in Accounts, public_key \in KeyInputs :
        \E out \in revoke_attestation(signer, public_key) :
            /\ Apply(out)
            /\ revoked' = IF out.ret = Ok THEN revoked \cup {public_key} ELSE revoked
            /\ UNCHANGED registered

Extend ==
    \E signer \in Accounts, public_key \in KeyInputs, additional_seconds \in U64 :
        \E out \in extend_attestation(signer, public_key, additional_seconds) :
            Apply(out) /\ UNCHANGED <<registered, revoked>>

UpdateMetadata ==
    \E signer \in Accounts, public_key \in KeyInputs, new_metadata \in MetadataInputs :
        \E out \in update_attestation_metadata(signer, public_key, new_metadata) :
            Apply(out) /\ UNCHANGED <<registered, revoked>>

Pause ==
    \E signer \in Accounts : \E out \in pause(signer) :
        Apply(out) /\ UNCHANGED <<registered, revoked>>

Unpause ==
    \E signer \in Accounts : \E out \in unpause(signer) :
        Apply(out) /\ UNCHANGED <<registered, revoked>>

Verify ==
    \E public_key \in KeyInputs, verify \in BOOLEAN :
        \E out \in verify_attestation(public_key, verify) :
            Apply(out) /\ UNCHANGED <<registered, revoked>>

(***************************************************************************)
(* ShadeAgent (shade_agent.rs) and the registry query it consults          *)
(* (tee/registry.rs).  The agent builds its registry handle over the       *)
(* storage it runs on; as in the integration tests, that storage is the    *)
(* registry's.                                                             *)
(***************************************************************************)
NanosPerSecond == 1000000000

\* env::block_timestamp(): nanoseconds, at the start of the current second
block_timestamp == now * NanosPerSecond

\* ContractError::InvalidTeeAttestation
InvalidTeeAttestation(msg) == [kind |-> "InvalidTeeAttestation", message |-> msg]

\* TeeAttestation::is_valid of tee/attestation.rs: not expired at the timestamp
\* given, and the signature verifies
legacy_is_valid(self, current_timestamp) ==
    /\ ~(current_timestamp > self.expires_at)
    /\ verify_signature(self) = Ok

\* TeeRegistry::is_attestation_valid: the timestamp passed on is
\* env::block_timestamp() as it is, in nanoseconds
is_attestation_valid(public_key) ==
    /\ attestations[public_key] # None
    /\ attestations[public_key].is_active
    /\ legacy_is_valid(attestations[public_key], block_timestamp)

\* TeeAttestation::verify: the attestation presented carries a signature over
\* its report that verifies under its key
attestation_verify(attestation) == verify_signature(attestation)

\* ShadeAgent::verify_tee_attestation
verify_tee_attestation(public_key, attestation) ==
    IF attestation_verify(attestation) # Ok
    THEN InvalidTeeAttestation("attestation does not verify")
    ELSE IF ~is_attestation_valid(public_key)
         THEN InvalidTeeAttestation("TEE attestation is not registered or has been revoked")
    ELSE Ok

\* ShadeAgent::process_order: the result, and whether execute_order ran
process_order(order_id, tee_public_key, tee_attestation) ==
    IF verify_tee_attestation(tee_public_key, tee_attestation) # Ok
    THEN [ret |-> verify_tee_attestation(tee_public_key, tee_attestation),
          executed |-> FALSE]
    ELSE [ret |-> Ok, executed |-> TRUE]

\* the attestations presented to the agent: a well signed one and a badly signed
\* one, and whatever the registry stores
PresentedAttestations ==
    {[tee_type |-> Sgx, public_key |-> k, report |-> "rep1", signature |-> s,
      issued_at |-> 0, expires_at |-> U64Max, signer_id |-> AdminAccount,
      version |-> "1.0.0", metadata |-> MetaSgx, updated_at |-> 0, is_active |-> TRUE] :
        k \in {"pk1"}, s \in {"sig1", "sig1_flip"}}
      \cup {attestations[k] : k \in {p \in KeyInputs : attestations[p] # None}}

ProcessOrder ==
    \E tee_public_key \in KeyInputs, tee_attestation \in PresentedAttestations :
        /\ process_order("order1", tee_public_key, tee_attestation).ret
             \in {Ok, verify_tee_attestation(tee_public_key, tee_attestation)}
        /\ UNCHANGED vars

\* the read-only calls: they take &self and return a value
Get ==
    \E public_key \in KeyInputs :
        /\ get_attestation(public_key) \in {attestations[k] : k \in KeyInputs}
        /\ UNCHANGED vars

ListKeys ==
    \E from_index \in PageInputs, limit \in PageInputs :
        \E result \in get_attestation_keys(from_index, limit) :
            /\ Len(result) <= Len(attestation_keys)
            /\ UNCHANGED vars

ListByOwner ==
    \E owner_id \in Accounts, from_index \in PageInputs, limit \in PageInputs :
        \E result \in get_attestations_by_owner(owner_id, from_index, limit) :
            /\ Len(result) <= Len(attestation_keys)
            /\ UNCHANGED vars

\* the chain produces the next block: the block timestamp advances
Tick ==
    /\ now < MaxNow
    /\ now' = now + 1
    /\ UNCHANGED <<attestations, attestation_keys, attestations_by_owner, admin,
                   is_paused, registered, revoked, others>>

Next ==
    \/ Register
    \/ Revoke
    \/ Extend
    \/ UpdateMetadata
    \/ Pause
    \/ Unpause
    \/ Verify
    \/ Get
    \/ ListKeys
    \/ ListByOwner
    \/ ProcessOrder
    \/ Tick

Spec == Init /\ [][Next]_vars

(***************************************************************************)
(* TeeType parsing and formatting on its own: a string is parsed, a        *)
(* TeeType is formatted, and the result can be parsed or formatted again.  *)
(***************************************************************************)
\* the registry as constructed, in the specifications that leave it alone
RegistryIdle ==
    /\ attestations = [k \in KeyInputs |-> None]
    /\ attestation_keys = <<>>
    /\ attestations_by_owner = [a \in Accounts |-> NoSet]
    /\ admin = AdminAccount
    /\ is_paused = FALSE
    /\ now = 0
    /\ registered = {}
    /\ revoked = {}

registry_vars == <<attestations, attestation_keys, attestations_by_owner, admin,
                   is_paused, registered, revoked>>

\* the canonical names and aliases from_str matches, and the variant of each
CanonicalNames ==
    {"sgx", "sev", "trustzone", "trust_zone", "asylo", "azure_attestation", "azure",
     "aws_nitro", "nitro"}
variant_of(name) ==
    CASE name = "sgx" -> Sgx
      [] name = "sev" -> Sev
      [] name \in {"trustzone", "trust_zone"} -> TrustZone
      [] name = "asylo" -> Asylo
      [] name \in {"azure_attestation", "azure"} -> AzureAttestation
      [] name \in {"aws_nitro", "nitro"} -> AwsNitro

\* a string with the letter at position i in upper case, and in upper case throughout
upper_at(s, i) == SubSeq(s, 1, i - 1) \o upper_char(char_at(s, i)) \o SubSeq(s, i + 1, Len(s))
RECURSIVE to_uppercase(_)
to_uppercase(s) ==
    IF s = "" THEN "" ELSE upper_char(char_at(s, 1)) \o to_uppercase(SubSeq(s, 2, Len(s)))
CaseVariants(s) == {s, to_uppercase(s)} \cup {upper_at(s, i) : i \in 1..Len(s)}

\* what follows "other:" in the strings offered
Suffixes == {"", "x", "X", "custom", "Custom", "sgx", "SGX", "a:b", "other:x"}

\* strings that are no name, alias or "other:" string
NoTypeNames == {"", "invalid", "sgx ", "sgxx", "other", "other;x", "tdx", "trust-zone"}

TextInputs ==
    UNION {CaseVariants(name) : name \in CanonicalNames}
      \cup {prefix \o suffix : prefix \in CaseVariants("other:"), suffix \in Suffixes}
      \cup NoTypeNames

TypeInputs ==
    {Sgx, Sev, TrustZone, Asylo, AzureAttestation, AwsNitro}
      \cup {Other(x) : x \in Suffixes \cup CanonicalNames}

TypeInit ==
    /\ RegistryIdle
    /\ orders = NoOrders
    /\ \/ text \in TextInputs /\ parsed = NoParse
       \/ text = "" /\ parsed \in {OkType(t) : t \in TypeInputs}

\* s.parse::<TeeType>()
FromStr ==
    /\ parsed' = from_str(text)
    /\ UNCHANGED <<text, orders, now, registry_vars>>

\* t.to_string()
Display ==
    /\ parsed # NoParse
    /\ parsed.ok
    /\ text' = to_string(parsed.value)
    /\ UNCHANGED <<parsed, orders, now, registry_vars>>

TypeNext == FromStr \/ Display

TypeSpec == TypeInit /\ [][TypeNext]_vars

(***************************************************************************)
(* CrossChainOrder (model/order.rs): partial fills, splitting, refunds.    *)
(* The fields no operation below reads or writes (chains, tokens,          *)
(* addresses, hashlock, creator, recipient, metadata, tee_attestation_id)  *)
(* are left out; the orders offered hold valid values in them.  An absent  *)
(* parent_order_id is "".  Time is `now`, in seconds.                      *)
(***************************************************************************)
\* amounts are u128; the time of an order's life advances up to MaxOrderNow
U128Max == 400
MaxOrderNow == 2

\* new(): min_fill_amount is source_amount / 100, max_fills is 10
MinFillDivisor == 100
DefaultMaxFills == 10
\* validate_params: the timelock is compared with block_timestamp / 1_000_000,
\* which is now * (NanosPerSecond / TimelockDivisor)
TimelockDivisor == 1000000
\* validate_params: the longest order id
MaxIdLen == 64

\* enum OrderStatus
Created == [tag |-> "Created"]
Processing == [tag |-> "Processing"]
PartiallyFilled == [tag |-> "PartiallyFilled"]
Filled == [tag |-> "Filled"]
Cancelled == [tag |-> "Cancelled"]
Failed(reason) == [tag |-> "Failed", reason |-> reason]

\* enum ValidationError
InvalidOrderId == [kind |-> "InvalidOrderId"]
InvalidAmount == [kind |-> "InvalidAmount"]
InvalidTimelock == [kind |-> "InvalidTimelock"]
InvalidOrderState == [kind |-> "InvalidOrderState"]
OtherError(msg) == [kind |-> "Other", message |-> msg]

\* u128 arithmetic as `+`, `*` and Iterator::sum compile: with overflow checks
\* an overflow panics, without them the result is taken modulo 2^128
u128_add(a, b, checks) ==
    IF a + b <= U128Max THEN [abort |-> FALSE, value |-> a + b]
    ELSE IF checks THEN [abort |-> TRUE, value |-> 0]
    ELSE [abort |-> FALSE, value |-> (a + b) % (U128Max + 1)]
u128_mul(a, b, checks) ==
    IF a * b <= U128Max THEN [abort |-> FALSE, value |-> a * b]
    ELSE IF checks THEN [abort |-> TRUE, value |-> 0]
    ELSE [abort |-> FALSE, value |-> (a * b) % (U128Max + 1)]

\* split_amounts.iter().sum()
RECURSIVE u128_sum(_, _)
u128_sum(amounts, checks) ==
    IF amounts = <<>> THEN [abort |-> FALSE, value |-> 0]
    ELSE LET front == u128_sum(SubSeq(amounts, 1, Len(amounts) - 1), checks)
         IN  IF front.abort THEN front
             ELSE u128_add(front.value, amounts[Len(amounts)], checks)

\* CrossChainOrder::validate_params, for the parameters that vary
validate_params(id, source_amount, dest_amount, timelock) ==
    IF id = "" \/ Len(id) > MaxIdLen THEN InvalidOrderId
    ELSE IF source_amount = 0 \/ dest_amount = 0 THEN InvalidAmount
    ELSE IF timelock <= now * (NanosPerSecond \div TimelockDivisor) THEN InvalidTimelock
    ELSE Ok

\* CrossChainOrder::new
order_new(id, source_amount, dest_amount, timelock) ==
    IF validate_params(id, source_amount, dest_amount, timelock) # Ok
    THEN [ret |-> validate_params(id, source_amount, dest_amount, timelock),
          order |-> NoOrder]
    ELSE [ret |-> Ok,
          order |-> [id |-> id,
                     amount |-> source_amount,
                     source_amount |-> source_amount,
                     dest_amount |-> dest_amount,
                     min_amount_out |-> dest_amount,
                     status |-> Created,
                     created_at |-> now,
                     expires_at |-> timelock,
                     timelock |-> timelock,
                     updated_at |-> now,
                     filled_amount |-> 0,
                     remaining_amount |-> source_amount,
                     fill_history |-> <<>>,
                     parent_order_id |-> "",
                     child_order_ids |-> <<>>,
                     min_fill_amount |-> source_amount \div MinFillDivisor,
                     max_fills |-> DefaultMaxFills,
                     fill_count |-> 0,
                     allow_partial_fills |-> TRUE]]

\* CrossChainOrder::update_status
update_status(self, new_status) ==
    IF self.status = new_status THEN self
    ELSE [self EXCEPT !.status = new_status, !.updated_at = now]

\* mutant: the fills are not counted against max_fills
process_partial_fill_uncapped(self, fill_amount, executor) ==
    IF ~self.allow_partial_fills
    THEN [ret |-> OtherError("Partial fills not allowed for this order"), order |-> self]
    ELSE IF fill_amount = 0 THEN [ret |-> InvalidAmount, order |-> self]
    ELSE IF fill_amount < self.min_fill_amount
         THEN [ret |-> OtherError("Fill amount below minimum"), order |-> self]
    ELSE IF fill_amount > self.remaining_amount
         THEN [ret |-> OtherError("Fill amount exceeds remaining amount"), order |-> self]
    ELSE IF self.status \notin {Created, Processing, PartiallyFilled}
         THEN [ret |-> InvalidOrderState, order |-> self]
    ELSE [ret |-> Ok,
          order |-> update_status(
              [self EXCEPT !.filled_amount = self.filled_amount + fill_amount,
                           !.remaining_amount = self.remaining_amount - fill_amount,
                           !.fill_count = self.fill_count + 1,
                           !.fill_history = Append(self.fill_history,
                                [fill_id |-> self.fill_count + 1,
                                 filled_amount |-> fill_amount,
                                 timestamp |-> now,
                                 executor |-> executor]),
                           !.updated_at = now],
              IF self.remaining_amount - fill_amount = 0 THEN Filled
              ELSE PartiallyFilled)]

\* mutant: a fill larger than what remains is accepted up to the order's amount
process_partial_fill_overfilling(self, fill_amount, executor) ==
    IF ~self.allow_partial_fills
    THEN [ret |-> OtherError("Partial fills not allowed for this order"), order |-> self]
    ELSE IF self.fill_count >= self.max_fills
         THEN [ret |-> OtherError("Maximum fills reached"), order |-> self]
    ELSE IF fill_amount = 0 THEN [ret |-> InvalidAmount, order |-> self]
    ELSE IF fill_amount < self.min_fill_amount
         THEN [ret |-> OtherError("Fill amount below minimum"), order |-> self]
    ELSE IF fill_amount > self.source_amount
         THEN [ret |-> OtherError("Fill amount exceeds remaining amount"), order |-> self]
    ELSE IF self.status \notin {Created, Processing, PartiallyFilled}
         THEN [ret |-> InvalidOrderState, order |-> self]
    ELSE [ret |-> Ok,
          order |-> update_status(
              [self EXCEPT !.filled_amount = self.filled_amount + fill_amount,
                           !.remaining_amount =
                               IF fill_amount > self.remaining_amount THEN 0
                               ELSE self.remaining_amount - fill_amount,
                           !.fill_count = self.fill_count + 1,
                           !.fill_history = Append(self.fill_history,
                                [fill_id |-> self.fill_count + 1,
                                 filled_amount |-> fill_amount,
                                 timestamp |-> now,
                                 executor |-> executor]),
                           !.updated_at = now],
              IF fill_amount >= self.remaining_amount THEN Filled
              ELSE PartiallyFilled)]

\* CrossChainOrder::process_partial_fill: the result and the order as it leaves
\* it. filled_amount + fill_amount is at most source_amount and fill_count + 1
\* at most max_fills, so neither addition overflows.
process_partial_fill(self, fill_amount, executor) ==
    IF ~self.allow_partial_fills
    THEN [ret |-> OtherError("Partial fills not allowed for this order"), order |-> self]
    ELSE IF self.fill_count >= self.max_fills
         THEN [ret |-> OtherError("Maximum fills reached"), order |-> self]
    ELSE IF fill_amount = 0 THEN [ret |-> InvalidAmount, order |-> self]
    ELSE IF fill_amount < self.min_fill_amount
         THEN [ret |-> OtherError("Fill amount below minimum"), order |-> self]
    ELSE IF fill_amount > self.remaining_amount
         THEN [ret |-> OtherError("Fill amount exceeds remaining amount"), order |-> self]
    ELSE IF self.status \notin {Created, Processing, PartiallyFilled}
         THEN [ret |-> InvalidOrderState, order |-> self]
    ELSE [ret |-> Ok,
          order |-> update_status(
              [self EXCEPT !.filled_amount = self.filled_amount + fill_amount,
                           !.remaining_amount = self.remaining_amount - fill_amount,
                           !.fill_count = self.fill_count + 1,
                           !.fill_history = Append(self.fill_history,
                                [fill_id |-> self.fill_count + 1,
                                 filled_amount |-> fill_amount,
                                 timestamp |-> now,
                                 executor |-> executor]),
                           !.updated_at = now],
              IF self.remaining_amount - fill_amount = 0 THEN Filled
              ELSE PartiallyFilled)]

\* format!("{}", i) for the positions of a split
to_decimal(i) == <<"1", "2", "3", "4", "5", "6", "7", "8", "9">>[i]

\* split_order: the child built for the i-th amount; the two products are
\* u128 multiplications
child_order(self, split_amounts, i, checks) ==
    LET split_amount == split_amounts[i]
        dest == u128_mul(self.dest_amount, split_amount, checks)
        min_out == u128_mul(self.min_amount_out, split_amount, checks)
    IN  [abort |-> dest.abort \/ min_out.abort,
         order |-> [id |-> self.id \o "-split-" \o to_decimal(i),
                    amount |-> split_amount,
                    source_amount |-> split_amount,
                    dest_amount |-> dest.value \div self.source_amount,
                    min_amount_out |-> min_out.value \div self.source_amount,
                    status |-> Created,
                    created_at |-> now,
                    expires_at |-> self.expires_at,
                    timelock |-> self.timelock,
                    updated_at |-> now,
                    filled_amount |-> 0,
                    remaining_amount |-> split_amount,
                    fill_history |-> <<>>,
                    parent_order_id |-> self.id,
                    child_order_ids |-> <<>>,
                    min_fill_amount |-> self.min_fill_amount,
                    max_fills |-> self.max_fills,
                    fill_count |-> 0,
                    allow_partial_fills |-> self.allow_partial_fills]]

\* CrossChainOrder::split_order, in a build with or without overflow checks
split_order(self, split_amounts, checks) ==
    LET total_split == u128_sum(split_amounts, checks)
        built == [i \in 1..Len(split_amounts) |->
                     child_order(self, split_amounts, i, checks)]
    IN  IF ~self.allow_partial_fills
        THEN [ret |-> OtherError("Order splitting not allowed"), children |-> <<>>]
        ELSE IF self.status # Created
             THEN [ret |-> InvalidOrderState, children |-> <<>>]
        ELSE IF total_split.abort THEN [ret |-> Abort, children |-> <<>>]
        ELSE IF total_split.value # self.remaining_amount
             THEN [ret |-> OtherError("Split amounts don't match remaining amount"),
                   children |-> <<>>]
        ELSE IF \E i \in 1..Len(split_amounts) : split_amounts[i] < self.min_fill_amount
             THEN [ret |-> OtherError("Split amount below minimum"), children |-> <<>>]
        ELSE IF \E i \in 1..Len(split_amounts) : built[i].abort
             THEN [ret |-> Abort, children |-> <<>>]
        ELSE [ret |-> Ok,
              children |-> [i \in 1..Len(split_amounts) |-> built[i].order]]

\* needs_refund: the order's time has passed
is_order_expired(self) == now > self.expires_at \/ now > self.timelock

\* mutant: an expired order is refunded whatever its status
needs_refund_any_status(self) ==
    /\ is_order_expired(self)
    /\ self.remaining_amount > 0

\* CrossChainOrder::needs_refund; current_timestamp() is `now`
needs_refund(self) ==
    /\ is_order_expired(self)
    /\ self.remaining_amount > 0
    /\ self.status \in {PartiallyFilled, Created, Processing}

\* CrossChainOrder::calculate_refund_amount
calculate_refund_amount(self) ==
    IF needs_refund(self) THEN self.remaining_amount ELSE 0

(***************************************************************************)
(* The solver contract's order handlers (lib.rs), called by an authorized  *)
(* account while the contract is not paused.  A handler that panics leaves *)
(* the stored orders as they were.                                         *)
(***************************************************************************)
OrderId == "o1"
\* the order the calls name; the children of a split are only refunded
CalledIds == {OrderId} \cap DOMAIN orders
OrderSource == 200
OrderDests == {1, 3}
OrderTimelocks == {1}
TestMaxFills == {1, DefaultMaxFills}
FillAmounts == {0, 1, 100, 200, 300}
Executors == {"solver"}
SplitInputs ==
    {<<>>, <<OrderSource>>, <<100, 100>>, <<100, 50>>, <<1, 199>>,
     <<U128Max, 2, OrderSource - 1>>}

\* orders built by CrossChainOrder::new, then configured as the tests do
NewOrders ==
    {[created.order EXCEPT !.max_fills = mf, !.allow_partial_fills = ap] :
        created \in {c \in {order_new(OrderId, OrderSource, d, t) :
                               d \in OrderDests, t \in OrderTimelocks} : c.ret = Ok},
        mf \in TestMaxFills, ap \in BOOLEAN}

OrderInit ==
    /\ RegistryIdle
    /\ text = ""
    /\ parsed = NoParse
    /\ \E o \in NewOrders : orders = (o.id :> o)

\* Contract::process_partial_fill
PartialFill ==
    \E id \in CalledIds, fill_amount \in FillAmounts, executor \in Executors :
        LET out == process_partial_fill(orders[id], fill_amount, executor)
        IN  /\ orders' = IF out.ret = Ok THEN [orders EXCEPT ![id] = out.order]
                         ELSE orders
            /\ UNCHANGED <<text, parsed, now, registry_vars>>

\* Contract::split_order
SplitOrder ==
    \E id \in CalledIds, split_amounts \in SplitInputs, checks \in BOOLEAN :
        LET out == split_order(orders[id], split_amounts, checks)
            positions == 1..Len(out.children)
            child_ids == [i \in positions |-> out.children[i].id]
            parent == update_status(
                          [orders[id] EXCEPT !.child_order_ids = child_ids],
                          Processing)
        IN  /\ orders' =
                  IF out.ret = Ok
                  THEN [k \in DOMAIN orders \cup {child_ids[i] : i \in positions} |->
                           IF k = id THEN parent
                           ELSE IF \E i \in positions : child_ids[i] = k
                                THEN out.children[CHOOSE i \in positions :
                                                      child_ids[i] = k]
                                ELSE orders[k]]
                  ELSE orders
            /\ UNCHANGED <<text, parsed, now, registry_vars>>

\* Contract::process_order_callback
ProcessOrderCallback ==
    \E id \in CalledIds :
        /\ orders' = [orders EXCEPT ![id] = update_status(orders[id], Filled)]
        /\ UNCHANGED <<text, parsed, now, registry_vars>>

\* Contract::cancel_order
CancelOrder ==
    \E id \in CalledIds :
        /\ orders' = IF orders[id].status \notin {Filled, Cancelled}
                     THEN [orders EXCEPT ![id] = update_status(orders[id], Cancelled)]
                     ELSE orders
        /\ UNCHANGED <<text, parsed, now, registry_vars>>

\* Contract::process_refunds
ProcessRefunds ==
    /\ orders' = [id \in DOMAIN orders |->
                     IF needs_refund(orders[id])
                        /\ calculate_refund_amount(orders[id]) > 0
                     THEN update_status(orders[id],
                                        Failed("Expired with partial refund"))
                     ELSE orders[id]]
    /\ UNCHANGED <<text, parsed, now, registry_vars>>

\* block time advances
OrderTick ==
    /\ now < MaxOrderNow
    /\ now' = now + 1
    /\ UNCHANGED <<text, parsed, orders, registry_vars>>

OrderNext ==
    \/ PartialFill
    \/ SplitOrder
    \/ ProcessOrderCallback
    \/ CancelOrder
    \/ ProcessRefunds
    \/ OrderTick

OrderSpec == OrderInit /\ [][OrderNext]_vars

(***************************************************************************)
(* Vocabulary of the properties.                                           *)
(***************************************************************************)
\* the call wrote nothing: every registry field is as before
Same(out) ==
    /\ out.attestations = attestations
    /\ out.attestation_keys = attestation_keys
    /\ out.attestations_by_owner = attestations_by_owner
    /\ out.is_paused = is_paused

\* the outcomes of each mutating operation but pause/unpause, over all inputs
RegisterOutcomes(signer, public_key) ==
    UNION {register_attestation(signer, public_key, t, r, s, ttl, m) :
             <<t, r, s, ttl, m>> \in TeeTypeInputs \X ReportInputs \X SignatureInputs
                                      \X U64 \X MetadataInputs}
ExtendOutcomes(signer, public_key) ==
    UNION {extend_attestation(signer, public_key, n) : n \in U64}
UpdateOutcomes(signer, public_key) ==
    UNION {update_attestation_metadata(signer, public_key, m) : m \in MetadataInputs}
GatedOutcomes(signer, public_key) ==
    RegisterOutcomes(signer, public_key) \cup revoke_attestation(signer, public_key)
      \cup ExtendOutcomes(signer, public_key) \cup UpdateOutcomes(signer, public_key)

Present == {k \in KeyInputs : attestations[k] # None}

\* the TEE types verified with ECDSA P-256
EcdsaFamily == {Sgx, Sev, TrustZone, AzureAttestation, AwsNitro}

\* every variant of TeeType, Other with one name
AllTeeTypes == {Sgx, Sev, TrustZone, Asylo, AzureAttestation, AwsNitro, Other("custom")}

\* the metadata keys each verifier requires for its TEE type
required_fields(tee_type) ==
    CASE tee_type = Sgx -> SgxRequired
      [] tee_type = Sev -> SevRequired
      [] tee_type = TrustZone -> TrustZoneRequired
      [] tee_type = Asylo -> AsyloRequired
      [] tee_type = AzureAttestation -> AzureRequired
      [] tee_type = AwsNitro -> AwsNitroRequired
      [] OTHER -> <<>>

Range(seq) == {seq[i] : i \in 1..Len(seq)}

\* complete SGX metadata whose sgx_mr_enclave is not 64 characters long
MetaSgxShortEnclave == [MetaSgx EXCEPT !.sgx_mr_enclave = "test_enclave"]

\* a metadata map with exactly the keys `keys`, each with a well-formed value
MetaWith(keys) == [f \in keys |-> IF f = "sgx_mr_enclave" THEN "hex64" ELSE "1"]

C2_PausedGate ==
    is_paused =>
        \A signer \in Accounts, k \in KeyInputs : \A out \in GatedOutcomes(signer, k) :
            out.ret = Paused /\ Same(out)

\* a paused registry that holds an active attestation
C2_Witness ==
    is_paused /\ \E k \in Present : attestations[k].is_active

(***************************************************************************)
(* C3, as claimed: for every caller other than the admin, each of the six  *)
(* mutating operations returns Unauthorized{caller, "admin"} and writes    *)
(* nothing.                                                                *)
(***************************************************************************)
C3_AlwaysUnauthorized ==
    \A signer \in Accounts \ {admin}, k \in KeyInputs :
        \A out \in GatedOutcomes(signer, k) \cup pause(signer) \cup unpause(signer) :
            out.ret = Unauthorized(signer, "admin") /\ Same(out)

(***************************************************************************)
(* C3, amended: for every caller other than the admin, pause and unpause   *)
(* always, and register, revoke, extend and update_metadata on an unpaused *)
(* registry, return Unauthorized{caller, "admin"}; on a paused registry    *)
(* those four return Paused; in every case nothing is written.  The admin  *)
(* is the account given at construction.                                   *)
(***************************************************************************)
C3_NonAdminRejected ==
    /\ admin = AdminAccount
    /\ \A signer \in Accounts \ {admin} :
        /\ \A out \in pause(signer) \cup unpause(signer) :
              out.ret = Unauthorized(signer, "admin") /\ Same(out)
        /\ \A k \in KeyInputs : \A out \in GatedOutcomes(signer, k) :
              /\ out.ret = IF is_paused THEN Paused ELSE Unauthorized(signer, "admin")
              /\ Same(out)

\* an unpaused registry holding an attestation that a non-admin tries to revoke
C3_Witness ==
    /\ ~is_paused
    /\ \E k \in Present : \E signer \in Accounts \ {admin} :
          /\ attestations[k].is_active
          /\ \E out \in revoke_attestation(signer, k) :
                out.ret = Unauthorized(signer, "admin")

(***************************************************************************)
(* C4: the key set holds exactly the keys of the primary map, each once,   *)
(* and every key in an owner's index set is a key of the primary map       *)
(* whose attestation was registered by that owner.                         *)
(***************************************************************************)
C4_IndexConsistency ==
    /\ {attestation_keys[i] : i \in 1..Len(attestation_keys)} = Present
    /\ Cardinality(Present) = Len(attestation_keys)
    /\ \A a \in Accounts :
          attestations_by_owner[a] # NoSet =>
              \A i \in 1..Len(attestations_by_owner[a].set) :
                  LET k == attestations_by_owner[a].set[i]
                  IN  k \in Present /\ attestations[k].signer_id = a

\* both keys are registered, one of them revoked
C4_Witness ==
    /\ Present = PublicKeys
    /\ Len(attestations_by_owner[admin].set) = 2
    /\ \E k \in Present : ~attestations[k].is_active

(***************************************************************************)
(* C5: once revoke_attestation has succeeded for a key, every validity     *)
(* query for it reports not-valid from then on: verify_attestation, with   *)
(* and without signature verification, returns an error, and is_valid of   *)
(* the stored attestation is false at every time.                          *)
(***************************************************************************)
C5_RevokedStaysInvalid ==
    \A k \in revoked :
        /\ \A verify \in BOOLEAN : \A out \in verify_attestation(k, verify) :
              out.ret.kind # "Ok"
        /\ \A t \in U64 : ~is_valid(get_attestation(k), t)

\* a key revoked at an earlier block and not expired now
C5_Witness ==
    \E k \in revoked :
        /\ attestations[k].updated_at < now
        /\ now <= attestations[k].expires_at

(***************************************************************************)
(* C6: is_active is true when an attestation is created and changes at     *)
(* most once, from true to false: no step stores an inactive new           *)
(* attestation, removes one, or makes an inactive one active.              *)
(***************************************************************************)
C6_ActiveOnce ==
    [][\A k \in KeyInputs :
          /\ (attestations[k] = None /\ attestations'[k] # None)
                => attestations'[k].is_active
          /\ attestations[k] # None
                => /\ attestations'[k] # None
                   /\ attestations'[k].is_active => attestations[k].is_active]_vars

\* one key revoked, the other registered and still active
C6_Witness ==
    /\ Present = PublicKeys
    /\ \E k \in revoked : ~attestations[k].is_active
    /\ \E k \in Present : attestations[k].is_active

(***************************************************************************)
(* C7: revoke is not idempotent.  On an active attestation it succeeds     *)
(* and leaves is_active false; on a revoked one it returns an error and    *)
(* changes nothing, directly and through the registry.                     *)
(***************************************************************************)
C7_RevokeNotIdempotent ==
    \A k \in Present :
        LET a == attestations[k]
            once == revoke(a)
        IN  /\ a.is_active =>
                /\ once.ret = Ok /\ ~once.att.is_active
                /\ revoke(once.att).ret.kind = "Revoked"
                /\ revoke(once.att).att = once.att
            /\ ~a.is_active =>
                /\ once.ret = Revoked(k, a.updated_at) /\ once.att = a
                /\ ~is_paused => \A out \in revoke_attestation(admin, k) :
                                    out.ret = Revoked(k, a.updated_at) /\ Same(out)
            /\ (a.is_active /\ ~is_paused) =>
                \A out \in revoke_attestation(admin, k) :
                    out.ret = Ok /\ ~out.attestations[k].is_active

\* an unpaused registry with a key that was revoked: the second revoke is refused
C7_Witness ==
    /\ ~is_paused
    /\ \E k \in revoked : \E out \in revoke_attestation(admin, k) :
          out.ret.kind = "Revoked"

(***************************************************************************)
(* C8, as claimed: the expires_at of a stored attestation never decreases. *)
(***************************************************************************)
C8_ExpiresAtNeverDecreases ==
    [][\A k \in KeyInputs :
          attestations[k] # None =>
              /\ attestations'[k] # None
              /\ attestations'[k].expires_at >= attestations[k].expires_at]_vars

C10_OverflowIsInternal ==
    \A k \in Present : \A n \in U64 :
        (attestations[k].is_active /\ attestations[k].expires_at + n > U64Max) =>
            \A done \in extend_expiration(attestations[k], n) :
                /\ done.ret.kind = "Internal"
                /\ done.att.expires_at = attestations[k].expires_at

(***************************************************************************)
(* C11, as claimed: every attestation that new() returns, and so every     *)
(* attestation register_attestation stores, has issued_at = now,           *)
(* expires_at = now + expires_in_seconds and issued_at < expires_at.       *)
(***************************************************************************)
C11_CreatedExpiry ==
    \A r \in RegisterInputs, expires_in_seconds \in U64 :
        /\ \A created \in new(r.tee_type, r.public_key, r.report, r.signature, admin,
                              expires_in_seconds, r.metadata) :
              created.ret = Ok =>
                  /\ created.att.issued_at = now
                  /\ created.att.expires_at = now + expires_in_seconds
                  /\ created.att.issued_at < created.att.expires_at
        /\ \A out \in register_attestation(admin, r.public_key, r.tee_type, r.report,
                                           r.signature, expires_in_seconds, r.metadata) :
              out.ret = Ok =>
                  /\ out.attestations[r.public_key].issued_at = now
                  /\ out.attestations[r.public_key].expires_at = now + expires_in_seconds
                  /\ out.attestations[r.public_key].issued_at
                        < out.attestations[r.public_key].expires_at

(***************************************************************************)
(* C12: pause and unpause by the admin are a strict toggle.  pause on an   *)
(* unpaused registry succeeds and sets is_paused; on a paused one it       *)
(* returns Paused.  unpause on a paused registry succeeds and clears       *)
(* is_paused; on an unpaused one it returns NotPaused.  A refused call     *)
(* writes nothing and a successful one writes is_paused only.              *)
(***************************************************************************)
C12_StrictToggle ==
    /\ pause(admin) = IF is_paused THEN {unchanged(Paused)}
                      ELSE {[unchanged(Ok) EXCEPT !.is_paused = TRUE]}
    /\ unpause(admin) = IF is_paused THEN {[unchanged(Ok) EXCEPT !.is_paused = FALSE]}
                        ELSE {unchanged(NotPaused)}
    /\ \A out \in pause(admin) \cup unpause(admin) :
          /\ out.ret \in {Ok, Paused, NotPaused}
          /\ out.ret = Ok <=> out.is_paused # is_paused
          /\ out.attestations = attestations
          /\ out.attestation_keys = attestation_keys
          /\ out.attestations_by_owner = attestations_by_owner

\* a registry that was paused at the last block and holds a revoked attestation:
\* a second pause is refused
C12_Witness ==
    /\ is_paused
    /\ now = MaxNow
    /\ revoked # {}
    /\ \E out \in pause(admin) : out.ret = Paused

(***************************************************************************)
(* C13: validate(now, verify_signature) returns NotActive for every        *)
(* revoked attestation; for an active one Expired when now > expires_at;   *)
(* for an active, unexpired one Ok when verify_signature is false, and     *)
(* otherwise exactly what the signature verifier returns.                  *)
(***************************************************************************)
C13_ValidateOrder ==
    \A k \in Present : \A t \in U64, verify \in BOOLEAN :
        LET a == attestations[k]
        IN  validate(a, t, verify) =
                IF ~a.is_active THEN NotActive(k)
                ELSE IF t > a.expires_at THEN Expired(k, a.expires_at, t)
                ELSE IF ~verify THEN Ok
                ELSE verify_tee_signature(a.tee_type, a.public_key, a.report,
                                          a.signature, a.metadata)

\* a revoked attestation, and an active, unexpired one whose signature the
\* verifier rejects
C13_Witness ==
    /\ \E k \in revoked : ~attestations[k].is_active
    /\ \E k \in Present :
          /\ attestations[k].is_active
          /\ now <= attestations[k].expires_at
          /\ validate(attestations[k], now, FALSE) = Ok
          /\ validate(attestations[k], now, TRUE).kind = "InvalidSignature"

C16_VerifyOkIsTrue ==
    \A k \in KeyInputs, verify \in BOOLEAN : \A out \in verify_attestation(k, verify) :
        LET a == attestations[k]
        IN  /\ Same(out)
            /\ out.ret.kind = "Ok" => out.ret = OkTrue
            /\ a = None => out.ret = NotFound(k)
            /\ a # None =>
                /\ out.ret = OkTrue <=> validate(a, now, verify) = Ok
                /\ ~a.is_active => out.ret = NotActive(k)
                /\ (a.is_active /\ now > a.expires_at)
                      => out.ret = Expired(k, a.expires_at, now)
                /\ (a.is_active /\ now <= a.expires_at /\ verify
                      /\ verify_signature(a) # Ok) => out.ret = verify_signature(a)

\* one attestation that verifies with its signature, one that is revoked, and an
\* absent key
C16_Witness ==
    /\ \E k \in Present : verify_attestation(k, TRUE) = {unchanged(OkTrue)}
    /\ \E k \in revoked : verify_attestation(k, FALSE) = {unchanged(NotActive(k))}
    /\ \E k \in KeyInputs : verify_attestation(k, FALSE) = {unchanged(NotFound(k))}

(***************************************************************************)
(* C17: for the admin on an unpaused registry, revoke, extend and          *)
(* update_metadata of a key that is not in the primary map return          *)
(* NotFound, whatever the other argument, and insert nothing into the      *)
(* primary map, the key set or the owner index.                            *)
(***************************************************************************)
C17_AbsentIsNotFound ==
    ~is_paused =>
        \A k \in KeyInputs \ Present :
            \A out \in revoke_attestation(admin, k) \cup ExtendOutcomes(admin, k)
                          \cup UpdateOutcomes(admin, k) :
                out.ret = NotFound(k) /\ Same(out)

\* an unpaused registry that holds one key and not the other, after a revocation
C17_Witness ==
    /\ ~is_paused
    /\ revoked # {}
    /\ \E k \in PublicKeys \ Present :
          extend_attestation(admin, k, 1) = {unchanged(NotFound(k))}

(***************************************************************************)
(* C18, as claimed: after every successful revoke, extend or               *)
(* update_metadata of a key by the registry, get_attestation of the key    *)
(* returns the mutated attestation: is_active false, expires_at increased  *)
(* by the requested seconds, or metadata equal to the new map.             *)
(***************************************************************************)
C18_MutationPersisted ==
    \A k \in Present :
        LET a == attestations[k]
        IN  /\ \A out \in revoke_attestation(admin, k) :
                  out.ret = Ok => ~out.attestations[k].is_active
            /\ \A n \in U64 : \A out \in extend_attestation(admin, k, n) :
                  out.ret = Ok => out.attestations[k].expires_at = a.expires_at + n
            /\ \A m \in MetadataInputs : \A out \in update_attestation_metadata(admin, k, m) :
                  out.ret = Ok => out.attestations[k].metadata = m

(***************************************************************************)
(* C19: the registry forwards entity errors unchanged.  For the admin on   *)
(* an unpaused registry, what register (of a free key), revoke, extend and *)
(* update_metadata (of a stored key) return is exactly what new, revoke,   *)
(* extend_expiration and update_metadata of the entity return, and what    *)
(* verify returns for a stored key that fails validation is exactly what   *)
(* validate returns; a failed call writes nothing.                         *)
(***************************************************************************)
C19_ErrorsForwarded ==
    /\ ~is_paused =>
        /\ \A r \in RegisterInputs, ttl \in U64 : r.public_key \notin Present =>
              /\ {out.ret : out \in register_attestation(admin, r.public_key, r.tee_type,
                                        r.report, r.signature, ttl, r.metadata)}
                    = {created.ret : created \in new(r.tee_type, r.public_key, r.report,
                                                     r.signature, admin, ttl, r.metadata)}
              /\ \A out \in register_attestation(admin, r.public_key, r.tee_type,
                                                 r.report, r.signature, ttl, r.metadata) :
                    out.ret # Ok => Same(out)
        /\ \A k \in Present :
              /\ {out.ret : out \in revoke_attestation(admin, k)}
                    = {revoke(attestations[k]).ret}
              /\ \A n \in U64 :
                    {out.ret : out \in extend_attestation(admin, k, n)}
                        = {done.ret : done \in extend_expiration(attestations[k], n)}
              /\ \A m \in MetadataInputs :
                    {out.ret : out \in update_attestation_metadata(admin, k, m)}
                        = {update_metadata(attestations[k], m).ret}
              /\ \A out \in revoke_attestation(admin, k) \cup ExtendOutcomes(admin, k)
                              \cup UpdateOutcomes(admin, k) :
                    out.ret # Ok => Same(out)
    /\ \A k \in Present, verify \in BOOLEAN :
          validate(attestations[k], now, verify) # Ok =>
              verify_attestation(k, verify)
                  = {unchanged(validate(attestations[k], now, verify))}

\* an unpaused registry where the entity refuses three calls for three reasons:
\* a revoked attestation (NotActive), metadata without a required field
\* (MissingMetadata) and an empty public key (InvalidReport)
C19_Witness ==
    /\ ~is_paused
    /\ \E k \in revoked :
          update_attestation_metadata(admin, k, MetaSgx) = {unchanged(NotActive(k))}
    /\ \E k \in Present :
          update_attestation_metadata(admin, k, MetaNoSvn)
              = {unchanged(MissingMetadata("sgx_isv_svn", "sgx"))}
    /\ register_attestation(admin, "", Sgx, "rep1", "sig1", 1, MetaSgx)
          = {unchanged(InvalidReport("Public key cannot be empty"))}

(***************************************************************************)
(* C20: new() rejects an empty public_key, an empty report, an empty       *)
(* signature and a zero ttl, the zero ttl of otherwise non-empty inputs    *)
(* with InvalidExpiration.  Through register_attestation by the admin on   *)
(* an unpaused registry every such call fails and stores nothing: a free   *)
(* key stays free and a valid registration of it still succeeds.           *)
(***************************************************************************)
C20_RejectedInputs ==
    \A k \in KeyInputs, t \in TeeTypeInputs, r \in ReportInputs, s \in SignatureInputs,
       ttl \in U64, m \in MetadataInputs :
        (k = "" \/ r = "" \/ s = "" \/ ttl = 0) =>
            /\ \A created \in new(t, k, r, s, admin, ttl, m) :
                  /\ created.ret # Ok /\ created.att = None
                  /\ now + ttl <= U64Max =>
                        created.ret =
                            IF k = "" THEN InvalidReport("Public key cannot be empty")
                            ELSE IF r = "" THEN InvalidReport("Report cannot be empty")
                            ELSE IF s = ""
                                 THEN InvalidSignature(k, "Signature cannot be empty")
                            ELSE InvalidExpiration(now, now)
            /\ ~is_paused =>
                  \A out \in register_attestation(admin, k, t, r, s, ttl, m) :
                      /\ out.ret # Ok /\ Same(out)
                      /\ (k \in PublicKeys \ Present /\ now + 1 <= U64Max) =>
                            \E again \in register_attestation(admin, k, Sgx, "rep1",
                                                              "sig1", 1, MetaSgx) :
                                again.ret = Ok /\ again.attestations[k] # None

\* an unpaused registry at a later block that holds one key: registering the other
\* with a zero ttl is refused with InvalidExpiration
C20_Witness ==
    /\ ~is_paused
    /\ now > 0
    /\ Present # {}
    /\ \E k \in PublicKeys \ Present :
          register_attestation(admin, k, Sgx, "rep1", "sig1", 0, MetaSgx)
              = {unchanged(InvalidExpiration(now, now))}

(***************************************************************************)
(* C21, as claimed: for every TEE type, new() succeeds on metadata holding *)
(* all keys required for the type, and on that metadata with one required  *)
(* key removed it fails with MissingMetadata naming the removed key.       *)
(***************************************************************************)
C21_RequiredTable ==
    \A t \in AllTeeTypes :
        LET req == Range(required_fields(t))
        IN  /\ \A created \in new(t, "pk1", "rep1", "sig1", admin, 1, MetaWith(req)) :
                  created.ret = Ok
            /\ \A f \in req :
                  \A created \in new(t, "pk1", "rep1", "sig1", admin, 1,
                                     MetaWith(req \ {f})) :
                      created.ret.kind = "MissingMetadata" /\ created.ret.field = f

(***************************************************************************)
(* C22, as claimed: update_metadata returns NotActive on a revoked         *)
(* attestation; on an active one it fails with MissingMetadata when the    *)
(* new metadata lacks a key required for the attestation's TEE type and    *)
(* leaves the metadata unchanged; on success the metadata equals the new   *)
(* map exactly.                                                            *)
(***************************************************************************)
C22_UpdateRevalidates ==
    /\ \A k \in Present : \A m \in MetadataInputs :
          LET a == attestations[k]
              done == update_metadata(a, m)
          IN  /\ ~a.is_active => done.ret = NotActive(k) /\ done.att = a
              /\ done.ret = Ok => done.att.metadata = m
              /\ done.ret # Ok => done.att = a
    /\ \A t \in AllTeeTypes :
          LET req == Range(required_fields(t))
          IN  \A created \in new(t, "pk1", "rep1", "sig1", admin, 1, MetaWith(req)) :
                  created.ret = Ok =>
                      \A f \in req :
                          LET done == update_metadata(created.att, MetaWith(req \ {f}))
                          IN  /\ done.ret.kind = "MissingMetadata"
                              /\ done.ret.field = f
                              /\ done.att.metadata = created.att.metadata

(***************************************************************************)
(* C23, as claimed: SGX metadata whose sgx_mr_enclave is not a             *)
(* 64-character hex string is never accepted: new(), register_attestation  *)
(* and update_metadata reject it with InvalidMetadata, so no stored SGX    *)
(* attestation has such a value.                                           *)
(***************************************************************************)
C23_EnclaveIs64Hex ==
    /\ \A created \in new(Sgx, "pk1", "rep1", "sig1", admin, 1, MetaSgxShortEnclave) :
          created.ret.kind = "InvalidMetadata"
    /\ \A k \in PublicKeys :
          \A out \in register_attestation(admin, k, Sgx, "rep1", "sig1", 1,
                                          MetaSgxShortEnclave) :
              out.ret # Ok /\ Same(out)
    /\ \A k \in Present :
          /\ attestations[k].tee_type = Sgx
                => str_len(attestations[k].metadata["sgx_mr_enclave"]) = 64
          /\ update_metadata(attestations[k], MetaSgxShortEnclave).ret # Ok

(***************************************************************************)
(* C24, as claimed: for TEE type Other the verifier returns Ok only when   *)
(* the metadata declares an implemented signature_algorithm and the        *)
(* signature verifies for the report under the public key; a declared but  *)
(* unimplemented algorithm (ECDSA-P384, RSA-PSS) and an absent or unknown  *)
(* one yield an error.  So validate(now, true) accepts no Other            *)
(* attestation whose signature was not verified.                           *)
(***************************************************************************)
C24_OtherNeverUnverified ==
    \A pk \in {"pk1", "pk2", "b64"}, rep \in {"rep1", "b64"},
       sig \in {"sig1", "sig1_flip", "b64"},
       m \in {EmptyMap} \cup {[signature_algorithm |-> alg] :
                                 alg \in GenericAlgorithms \cup {"unknown"}} :
        LET ret == verify_tee_signature(Other("custom"), pk, rep, sig, m)
            verified ==
                /\ "signature_algorithm" \in DOMAIN m
                /\ m["signature_algorithm"] = "ECDSA-P256"
                /\ p256_key(base64_decode(pk))
                /\ p256_signature(base64_decode(sig))
                /\ p256_verify(base64_decode(pk), sha256(base64_decode(rep)),
                               base64_decode(sig))
        IN  /\ ret = Ok => verified
            /\ ("signature_algorithm" \notin DOMAIN m
                  \/ m["signature_algorithm"] \notin GenericAlgorithms)
                  => ret.kind = "InvalidMetadata"
            /\ \A created \in new(Other("custom"), pk, rep, sig, admin, 1, m) :
                  (created.ret = Ok /\ validate(created.att, now, TRUE) = Ok) => verified

\* what the verifier of TEE type t returns on metadata with exactly the keys
\* `keys` agrees with metadata first, decoding second
metadata_first(t, pk, rep, sig, keys) ==
    LET ret == verify_tee_signature(t, pk, rep, sig, MetaWith(keys))
        missing == first_missing(required_fields(t), MetaWith(keys))
    IN  IF missing # 0
        THEN /\ ret.kind = "MissingMetadata"
             /\ ret.field = required_fields(t)[missing]
             /\ ret.field \notin keys
        ELSE /\ pk \in NotBase64 => ret.kind = "InvalidSignature"
             /\ (pk \notin NotBase64 /\ rep \in NotBase64) => ret.kind = "InvalidReport"
             /\ (pk \notin NotBase64 /\ rep \notin NotBase64 /\ sig \in NotBase64)
                   => ret.kind = "InvalidSignature"
             /\ (pk = "pk1" /\ rep = "rep1" /\ sig = "sig1") => ret = Ok

\* metadata_first for every ECDSA-family type, valid and invalid base64 in each
\* input, and every subset of the required keys
metadata_first_table ==
    \A t \in EcdsaFamily, pk \in {"pk1", "pk2", "!pk"}, rep \in {"rep1", "!rep"},
       sig \in {"sig1", "!sig"} :
        \A keys \in SUBSET Range(required_fields(t)) :
            metadata_first(t, pk, rep, sig, keys)

(***************************************************************************)
(* C25: for every ECDSA-family TEE type the verifier looks at the required *)
(* metadata before it decodes anything.  With a required key missing it    *)
(* returns MissingMetadata naming the first missing key, whatever the      *)
(* non-empty public_key, report and signature are, invalid base64          *)
(* included; with complete metadata, invalid base64 in public_key or       *)
(* signature yields InvalidSignature and in report InvalidReport.  The     *)
(* same holds for what every stored attestation holds, verified under a    *)
(* report that is not base64.                                              *)
(***************************************************************************)
C25_MetadataBeforeDecoding ==
    /\ metadata_first_table
    /\ \A k \in Present : \A f \in {"none"} \cup Range(required_fields(attestations[k].tee_type)) :
          metadata_first(attestations[k].tee_type, attestations[k].public_key, "!rep",
                         attestations[k].signature,
                         DOMAIN attestations[k].metadata \ {f})

\* a stored attestation's key and signature, verified with a report that is not
\* base64: MissingMetadata when a metadata key is missing, InvalidReport when not
C25_Witness ==
    \E k \in Present :
        LET a == attestations[k]
        IN  /\ verify_tee_signature(a.tee_type, a.public_key, "!rep", a.signature,
                                    MetaNoSvn) = MissingMetadata("sgx_isv_svn", "SGX")
            /\ verify_tee_signature(a.tee_type, a.public_key, "!rep", a.signature,
                                    a.metadata).kind = "InvalidReport"
            /\ verify_tee_signature(Sev, a.public_key, "!rep", "!sig",
                                    MetaWith({"sev_policy"}))
                  = MissingMetadata("sev_family_id", "SEV")

\* the signatures offered to the SGX verifier: the signature made with key 1 over
\* SHA-256(report 1) as the message, the one made over report 1 itself, and the
\* first with one byte changed (still a signature, a scalar out of range, or no
\* longer base64)
SgxSignatures == {"sig1", "sig1_plain", "sig1_flip", "sig1_flip_range", "sig1_flip_b64"}

\* the SGX verifier accepts exactly the signature over SHA-256(report) under the
\* matching key, and rejects everything else as InvalidSignature
sgx_signature_table ==
    \A pk \in {"pk1", "pk2"}, sig \in SgxSignatures :
        LET ret == verify_tee_signature(Sgx, pk, "rep1", sig, MetaSgx)
        IN  IF pk = "pk1" /\ sig = "sig1" THEN ret = Ok
            ELSE ret.kind = "InvalidSignature"

C27_NeverAborts ==
    \A signer \in Accounts, k \in KeyInputs :
        /\ \A out \in GatedOutcomes(signer, k) : out.ret # Abort
        /\ \A out \in pause(signer) \cup unpause(signer) \cup verify_attestation(k, TRUE) :
               out.ret # Abort

\* the contiguous window of at most `limit` entries of a set's iteration order
\* that starts at position `from`
Window(set, from, limit) ==
    [i \in 1..Min(limit, IF from >= Len(set) THEN 0 ELSE Len(set) - from) |-> set[from + i]]

NoRepeat(seq) == \A i, j \in DOMAIN seq : seq[i] = seq[j] => i = j

\* C28: the list operations return the window of the set's iteration order that
\* starts at from_index and has at most min(limit, 100) entries, without a
\* repeated key, and the empty list when from_index is at or past the end or
\* the owner is unknown. Refuted where usize is 32 bits wide (the wasm32 target):
\* `from_index as usize` drops the high bits, so a from_index far past the end
\* selects a window inside the set.
C28_Pagination ==
    \A from_index \in PageInputs, limit \in PageInputs :
        LET from == unwrap_or(from_index, 0)
            n    == Min(unwrap_or(limit, DefaultLimit), LimitCap)
        IN  /\ \A result \in get_attestation_keys(from_index, limit) :
                   /\ result = Window(attestation_keys, from, n)
                   /\ Len(result) <= n
                   /\ NoRepeat(result)
                   /\ from >= Len(attestation_keys) => result = <<>>
            /\ \A owner_id \in Accounts :
                   \A result \in get_attestations_by_owner(owner_id, from_index, limit) :
                       IF attestations_by_owner[owner_id] = NoSet THEN result = <<>>
                       ELSE LET keys == attestations_by_owner[owner_id].set
                            IN  /\ [i \in DOMAIN result |-> result[i].public_key]
                                      = Window(keys, from, n)
                                /\ \A i \in DOMAIN result :
                                       result[i] = attestations[result[i].public_key]
                                /\ Len(result) <= n
                                /\ from >= Len(keys) => result = <<>>

\* the key is stored, listed in the key set and listed in the index of the
\* account that registered it (the attestation's signer_id)
Kept(k, atts, keys, by_owner) ==
    /\ atts[k] # None
    /\ k \in Range(keys)
    /\ by_owner[atts[k].signer_id] # NoSet
    /\ k \in Range(by_owner[atts[k].signer_id].set)

\* C29: attestations are never physically removed: after every step, each key
\* whose registration has succeeded still has an attestation returned by get,
\* is in the key set and is in its owner's index; and no step, revoke included,
\* decreases the number of known keys.
C29_NeverRemoved ==
    [][/\ \A k \in registered' :
              Kept(k, attestations', attestation_keys', attestations_by_owner')
       /\ Len(attestation_keys') >= Len(attestation_keys)]_vars

\* a registered key has been revoked and is still stored and listed
C29_Witness ==
    \E k \in registered \cap revoked :
        /\ get_attestation(k) # None
        /\ ~get_attestation(k).is_active
        /\ k \in Range(attestation_keys)

\* C30: there is no auto-expiry and the queries are pure. At every state and
\* whatever the current time is, the outcome of verify leaves every registry
\* field as it is and is decided by the stored attestation and the current time
\* alone; get returns the stored attestation; is_valid is false past expires_at
\* without is_active changing; and a stored attestation is inactive only if a
\* revoke of its key has succeeded, however far the time is past its expires_at.
C30_NoAutoExpiry ==
    /\ \A k \in KeyInputs, verify \in BOOLEAN :
           \A out \in verify_attestation(k, verify) :
               /\ Same(out)
               /\ k \in Present =>
                      (out.ret = OkTrue <=> validate(attestations[k], now, verify) = Ok)
    /\ \A k \in Present :
           /\ get_attestation(k) = attestations[k]
           /\ \A t \in U64 :
                  is_valid(attestations[k], t)
                    = (attestations[k].is_active /\ t <= attestations[k].expires_at)
           /\ ~attestations[k].is_active => k \in revoked

\* an attestation is past its expires_at, still active, and a verify of it has
\* answered Expired without touching the registry
C30_Witness ==
    \E k \in Present :
        /\ now > attestations[k].expires_at
        /\ attestations[k].is_active
        /\ ~is_valid(attestations[k], now)
        /\ verify_attestation(k, FALSE)
             = {unchanged(Expired(k, attestations[k].expires_at, now))}

\* C31: parse(format(t)) = t for every TEE type t: whenever a TEE type is at
\* hand (a named variant, or Other(x) with x empty, in upper case, holding ':'
\* or equal to a canonical name), parsing the string it formats to gives it back.
C31_RoundTrip ==
    (parsed # NoParse /\ parsed.ok) =>
        from_str(to_string(parsed.value)) = OkType(parsed.value)

\* Other("SGX") has been formatted to "other:SGX"
C31_Witness ==
    /\ parsed = OkType(Other("SGX"))
    /\ text = "other:SGX"

\* C32 as stated: parsing ignores letter case in the canonical names, in the
\* aliases and in the "other:" prefix; "other:<suffix>" gives Other(suffix);
\* every other string is rejected.
C32_CaseInsensitive ==
    LET lowered == to_lowercase(text)
    IN  IF lowered \in CanonicalNames THEN from_str(text) = OkType(variant_of(lowered))
        ELSE IF starts_with(lowered, "other:")
             THEN from_str(text) = OkType(Other(SubSeq(text, 7, Len(text))))
        ELSE ~from_str(text).ok

\* C32 as amended: parsing ignores letter case in the canonical names and
\* aliases only; the "other:" prefix is recognised in lower case as written, and
\* then the suffix is kept as given; every other string, one with a prefix such
\* as "Other:" or "OTHER:" included, is rejected with the invalid-type message.
C32_CaseInsensitiveNames ==
    LET lowered == to_lowercase(text)
    IN  IF lowered \in CanonicalNames THEN from_str(text) = OkType(variant_of(lowered))
        ELSE IF starts_with(text, "other:")
             THEN from_str(text) = OkType(Other(SubSeq(text, 7, Len(text))))
        ELSE from_str(text) = ErrString("Invalid TEE type: " \o text)

\* an alias with one letter in upper case has been parsed to its variant, and
\* so has the canonical name in upper case
C32_Witness ==
    \/ text = "trust_Zone" /\ parsed = OkType(TrustZone)
    \/ text = "AZURE_ATTESTATION" /\ parsed = OkType(AzureAttestation)

\* the attestation stored under a key is valid now: registered, not revoked,
\* not expired, and its signature verifies
RegisteredValid(k) ==
    /\ attestations[k] # None
    /\ attestations[k].is_active
    /\ now <= attestations[k].expires_at
    /\ verify_signature(attestations[k]) = Ok

\* C33: process_order executes the order if and only if the attestation
\* presented verifies and the key is registered, not revoked and not expired in
\* the registry; otherwise it fails with an invalid-attestation error and does
\* not execute. Refuted: the registry query compares expires_at, in seconds,
\* with the block timestamp in nanoseconds, so a registered valid attestation
\* is reported invalid from the first second on.
C33_OrderGate ==
    \A k \in KeyInputs, att \in PresentedAttestations :
        LET out == process_order("order1", k, att)
        IN  /\ out.executed <=> (attestation_verify(att) = Ok /\ RegisteredValid(k))
            /\ out.executed <=> out.ret = Ok
            /\ ~out.executed => out.ret.kind = "InvalidTeeAttestation"

(***************************************************************************)
(* Orders: partial fills, refunds, splitting.                              *)
(***************************************************************************)
RECURSIVE sum_of_fills(_)
sum_of_fills(fill_history) ==
    IF fill_history = <<>> THEN 0
    ELSE fill_history[1].filled_amount + sum_of_fills(Tail(fill_history))

\* the calls of process_partial_fill on a stored order
FillOutcomes(o) ==
    {[fill_amount |-> a, out |-> process_partial_fill(o, a, e)] :
        a \in FillAmounts, e \in Executors}

\* the fields a rejected fill must leave alone
FillState(o) == <<o.filled_amount, o.remaining_amount, o.status, o.fill_history>>

\* C34: at every moment of an order's life filled_amount + remaining_amount is
\* source_amount, filled_amount is the sum of the amounts in fill_history and
\* fill_count is the length of fill_history; a fill of 0, below min_fill_amount
\* or above remaining_amount is rejected and leaves the order unchanged.
C34_FillAccounting ==
    \A id \in DOMAIN orders :
        LET o == orders[id]
        IN  /\ o.filled_amount + o.remaining_amount = o.source_amount
            /\ o.filled_amount = sum_of_fills(o.fill_history)
            /\ o.fill_count = Len(o.fill_history)
            /\ \A f \in FillOutcomes(o) :
                   (\/ f.fill_amount = 0
                    \/ f.fill_amount < o.min_fill_amount
                    \/ f.fill_amount > o.remaining_amount)
                   => f.out.ret # Ok /\ f.out.order = o

\* an order filled once, with a part left that some offered fill exceeds
C34_Witness ==
    /\ OrderId \in DOMAIN orders
    /\ orders[OrderId].fill_count = 1
    /\ orders[OrderId].remaining_amount = 100
    /\ orders[OrderId].status = PartiallyFilled
    /\ \E f \in FillOutcomes(orders[OrderId]) :
           f.fill_amount > orders[OrderId].remaining_amount /\ f.out.ret # Ok

\* C35 (as claimed): a successful fill leaves the order Filled exactly when
\* nothing remains and PartiallyFilled otherwise; a Filled order accepts no
\* fill, needs no refund and has refund amount 0; an expired order with
\* remaining_amount > 0 has refund amount remaining_amount.
C35_StatusAndRefund ==
    \A id \in DOMAIN orders :
        LET o == orders[id]
        IN  /\ \A f \in FillOutcomes(o) :
                   f.out.ret = Ok =>
                       /\ f.out.order.status = Filled
                              <=> f.out.order.remaining_amount = 0
                       /\ f.out.order.remaining_amount # 0
                              => f.out.order.status = PartiallyFilled
            /\ o.status = Filled =>
                   /\ \A f \in FillOutcomes(o) : f.out.ret # Ok
                   /\ ~needs_refund(o)
                   /\ calculate_refund_amount(o) = 0
            /\ (is_order_expired(o) /\ o.remaining_amount > 0)
                   => calculate_refund_amount(o) = o.remaining_amount

\* C35 (amended): as claimed, but the refund of an expired order with
\* remaining_amount > 0 is remaining_amount only while its status is Created,
\* Processing or PartiallyFilled; in any other status, and for every order
\* that is not expired, it is 0.
C35_StatusAndRefundOpen ==
    \A id \in DOMAIN orders :
        LET o == orders[id]
        IN  /\ \A f \in FillOutcomes(o) :
                   f.out.ret = Ok =>
                       /\ f.out.order.status = Filled
                              <=> f.out.order.remaining_amount = 0
                       /\ f.out.order.remaining_amount # 0
                              => f.out.order.status = PartiallyFilled
            /\ o.status = Filled =>
                   /\ \A f \in FillOutcomes(o) : f.out.ret # Ok
                   /\ ~needs_refund(o)
                   /\ calculate_refund_amount(o) = 0
            /\ (/\ is_order_expired(o)
                /\ o.remaining_amount > 0
                /\ o.status \in {Created, Processing, PartiallyFilled})
                   => calculate_refund_amount(o) = o.remaining_amount
            /\ (\/ ~is_order_expired(o)
                \/ o.status \notin {Created, Processing, PartiallyFilled})
                   => calculate_refund_amount(o) = 0

\* an expired, cancelled order that was filled in part
C35_Witness ==
    /\ OrderId \in DOMAIN orders
    /\ is_order_expired(orders[OrderId])
    /\ orders[OrderId].remaining_amount > 0
    /\ orders[OrderId].fill_count > 0
    /\ orders[OrderId].status = Cancelled
    /\ calculate_refund_amount(orders[OrderId]) = 0

\* C40: fill_count never exceeds max_fills, and once it equals max_fills every
\* fill is rejected and leaves filled_amount, remaining_amount, status and
\* fill_history unchanged, even when remaining_amount > 0.
C40_MaxFills ==
    \A id \in DOMAIN orders :
        LET o == orders[id]
        IN  /\ o.fill_count <= o.max_fills
            /\ o.fill_count = o.max_fills =>
                   \A f \in FillOutcomes(o) :
                       f.out.ret # Ok /\ FillState(f.out.order) = FillState(o)

\* max_fills is reached with a part left that an offered fill would fit
C40_Witness ==
    /\ OrderId \in DOMAIN orders
    /\ orders[OrderId].fill_count = orders[OrderId].max_fills
    /\ orders[OrderId].remaining_amount = 100
    /\ orders[OrderId].status = PartiallyFilled

\* the sum of a list of amounts, as a number
RECURSIVE sum_of(_)
sum_of(amounts) ==
    IF amounts = <<>> THEN 0 ELSE amounts[1] + sum_of(Tail(amounts))

\* what split_order asks of the order and of the amounts
Splittable(o, amounts) ==
    /\ o.status = Created
    /\ o.allow_partial_fills
    /\ sum_of(amounts) = o.remaining_amount
    /\ \A i \in 1..Len(amounts) : amounts[i] >= o.min_fill_amount

\* C36: split_order succeeds only on a Created order that allows partial fills,
\* with amounts that sum exactly to remaining_amount and are each at least
\* min_fill_amount; it then returns one child per amount, Created, unfilled,
\* with source_amount = remaining_amount = its amount and the parent's id as
\* parent_order_id, so that the children's source amounts sum to the parent's
\* remaining_amount; otherwise it returns an error and no child.
C36_Split ==
    \A id \in DOMAIN orders, amounts \in SplitInputs, checks \in BOOLEAN :
        LET o == orders[id]
            out == split_order(o, amounts, checks)
        IN  /\ out.ret = Ok =>
                   /\ Splittable(o, amounts)
                   /\ Len(out.children) = Len(amounts)
                   /\ \A i \in 1..Len(amounts) :
                          /\ out.children[i].status = Created
                          /\ out.children[i].filled_amount = 0
                          /\ out.children[i].source_amount = amounts[i]
                          /\ out.children[i].remaining_amount = amounts[i]
                          /\ out.children[i].parent_order_id = o.id
                   /\ sum_of([i \in 1..Len(amounts) |->
                                 out.children[i].source_amount])
                          = o.remaining_amount
            /\ ~Splittable(o, amounts) =>
                   /\ out.ret \notin {Ok, Abort}
                   /\ out.children = <<>>

\* metadata maps offered at creation and update: for each TEE type everything
\* its verifier reads, that with one key left out, and what creation enforces
CompletenessInputs(t) ==
    LET req == Range(required_fields(t))
    IN  {MetaWith(req)} \cup {MetaWith(req \ {f}) : f \in req}
          \cup {MetaWith({"sev_policy"}), MetaWith({"trustzone_version"})}

\* C37: whatever create or update_metadata accepts is complete for the
\* signature verifier: validate(now, verify_signature = true) on a stored
\* attestation, on an attestation new() accepted or on one update_metadata
\* accepted never fails with MissingMetadata, for every TEE type.
C37_AcceptedComplete ==
    /\ \A k \in Present :
          validate(attestations[k], now, TRUE).kind # "MissingMetadata"
    /\ \A t \in AllTeeTypes : \A m \in CompletenessInputs(t) :
          \A created \in new(t, "pk1", "rep1", "sig1", admin, 1, m) :
              created.ret = Ok =>
                  /\ validate(created.att, now, TRUE).kind # "MissingMetadata"
                  /\ \A m2 \in CompletenessInputs(t) :
                        LET done == update_metadata(created.att, m2)
                        IN  done.ret = Ok =>
                                validate(done.att, now, TRUE).kind
                                    # "MissingMetadata"

\* C38: the mutating operations check the pause state, then the caller, then
\* the key, then the entity, and report the first check that fails: on a
\* paused registry register, revoke, extend and update_metadata return Paused
\* to every caller; on an unpaused one a non-admin gets Unauthorized whether
\* or not the key is present, the admin registering a present key gets
\* AlreadyExists whatever the other arguments, and the admin naming an absent
\* key in revoke, extend or update_metadata gets NotFound; pause and unpause
\* look at the caller before the redundant transition.
C38_CheckOrder ==
    /\ \A signer \in Accounts, k \in KeyInputs :
          \A out \in GatedOutcomes(signer, k) :
              /\ is_paused => out.ret = Paused
              /\ (~is_paused /\ signer # admin)
                     => out.ret = Unauthorized(signer, "admin")
    /\ ~is_paused =>
          /\ \A k \in Present : \A out \in RegisterOutcomes(admin, k) :
                out.ret = AlreadyExists(k)
          /\ \A k \in KeyInputs \ Present :
                \A out \in revoke_attestation(admin, k)
                             \cup ExtendOutcomes(admin, k)
                             \cup UpdateOutcomes(admin, k) :
                    out.ret = NotFound(k)
    /\ \A signer \in Accounts \ {admin} :
          \A out \in pause(signer) \cup unpause(signer) :
              out.ret = Unauthorized(signer, "admin")

\* a paused registry holding a revoked attestation: a non-admin revoking it
\* again fails the pause check, the caller check and the entity check
C38_Witness ==
    /\ is_paused
    /\ \E k \in Present : \E signer \in Accounts \ {admin} :
          /\ ~attestations[k].is_active
          /\ revoke_attestation(signer, k) = {unchanged(Paused)}
          /\ pause(signer) = {unchanged(Unauthorized(signer, "admin"))}

\* the call changed nothing but the entry of `public_key`, and in it nothing
\* but the fields `fields`
OnlyEntry(out, public_key, fields) ==
    /\ out.attestation_keys = attestation_keys
    /\ out.attestations_by_owner = attestations_by_owner
    /\ out.is_paused = is_paused
    /\ \A k \in KeyInputs \ {public_key} : out.attestations[k] = attestations[k]
    /\ out.attestations[public_key] # None
    /\ \A f \in DOMAIN attestations[public_key] \ fields :
          out.attestations[public_key][f] = attestations[public_key][f]

\* C39: a registry call that does not succeed leaves the primary map, the key
\* set, the owner index and is_paused as they were; a successful revoke, extend
\* or update_metadata on key K changes only K's entry, and in it only
\* is_active, expires_at or metadata respectively, and updated_at.
C39_AllOrNothing ==
    /\ \A signer \in Accounts, k \in KeyInputs :
          \A out \in GatedOutcomes(signer, k) \cup pause(signer) \cup unpause(signer) :
              out.ret # Ok => Same(out)
    /\ \A signer \in Accounts, k \in Present :
          /\ \A out \in revoke_attestation(signer, k) :
                out.ret = Ok => OnlyEntry(out, k, {"is_active", "updated_at"})
          /\ \A out \in ExtendOutcomes(signer, k) :
                out.ret = Ok => OnlyEntry(out, k, {"expires_at", "updated_at"})
          /\ \A out \in UpdateOutcomes(signer, k) :
                out.ret = Ok => OnlyEntry(out, k, {"metadata", "updated_at"})

\* two attestations are stored, and the admin can update the metadata of one
\* while the same call by the other account fails
C39_Witness ==
    /\ ~is_paused
    /\ now > 0
    /\ \E k \in Present :
          /\ Present \ {k} # {}
          /\ \E out \in UpdateOutcomes(admin, k) :
                out.ret = Ok /\ out.attestations[k] # attestations[k]
          /\ \E out \in ExtendOutcomes(admin, k) : out.ret = Ok
          /\ \E signer \in Accounts \ {admin} :
                \E out \in UpdateOutcomes(signer, k) : out.ret # Ok

====
